---- MODULE Spec2Model ----
(***************************************************************************)
(* A model of the SurveyKit advanced pipeline's audit core                 *)
(* (src/02_advanced_pipeline/surveykit): the schema validator              *)
(* (validate_data.py) and the chart consistency checker                    *)
(* (validate_charts.py).                                                   *)
(*                                                                         *)
(* A pandas DataFrame is a record                                          *)
(*     [columns : sequence of column names,                                *)
(*      dtype   : column name -> observed dtype ("int64", "float64",       *)
(*                "object"),                                               *)
(*      data    : column name -> sequence of cells]                        *)
(* A cell is Null (NaN / None, what isna() reports), Num(n), Str(s) or,    *)
(* in a chart's aggregated column, Float(k).                               *)
(*                                                                         *)
(* The disk is a function from paths (sequences of path components) to     *)
(* entries: [kind |-> "dir"], [kind |-> "file", bytes |-> text] or, for a  *)
(* manifest, [kind |-> "file", json |-> the JSON object written].          *)
(* An int64 column holds no Null: pandas stores a numeric column with a    *)
(* missing value as float64.                                               *)
(***************************************************************************)
EXTENDS Integers, Sequences, FiniteSets, TLC

VARIABLES
    dataset,  \* the DataFrame the caller holds in memory (df)
    vin,      \* arguments of the pending / last validate_dataframe call
    vout,     \* outcome of the last validate_dataframe call
    vlog,     \* lines of the file at log_path (validation.jsonl)
    ncalls,   \* number of validate_dataframe calls made so far
    cin,      \* arguments of the last validate_charts call
    cout,     \* outcome of the last validate_charts call
    fs,       \* the files and directories on disk: path -> entry
    clock,    \* the wall clock, time.time(), in ticks of half a second
    din,      \* argument, and directory listing, of the last sha256_dir call
    dout,     \* digest returned by the last sha256_dir call
    min,      \* arguments of the last write_manifest call
    mout,     \* outcome of the last write_manifest call
    pin,      \* configuration of the last pipeline run (cli.main)
    pout,     \* outcome of the last pipeline run
    sin,      \* arguments of the last verify_summary_against_stats call
    sout      \* outcome of the last verify_summary_against_stats call

\* the state of validate_data.py and validate_charts.py
auditvars == <<dataset, vin, vout, vlog, ncalls, cin, cout>>

\* the state of integrity.py
integrityvars == <<fs, clock, din, dout, min, mout>>

\* the state of cli.py
pipelinevars == <<pin, pout, sin, sout>>

vars == <<dataset, vin, vout, vlog, ncalls, cin, cout,
          fs, clock, din, dout, min, mout, pin, pout, sin, sout>>

(***************************************************************************)
(* Bounds of the model.                                                    *)
(***************************************************************************)
MaxRows == 2
MaxCalls == 3

(***************************************************************************)
(* Values.                                                                 *)
(***************************************************************************)
None == [t |-> "None"]
Null == [t |-> "null"]
Num(n) == [t |-> "n", n |-> n]
Str(s) == [t |-> "s", s |-> s]

\* numpy scalars, as Series.unique() hands them out
NpInt64(n) == [t |-> "numpy.int64", n |-> n]
NpFloat64(n) == [t |-> "numpy.float64", n |-> n]

IsNa(v) == v = Null

EmptyDict == [k \in {} |-> None]

\* Python's order on the strings the model uses (code point order).
StrOrder == <<"", "A", "B", "C", "_w", "age", "id", "seg">>

StrRank(s) == CHOOSE i \in 1..Len(StrOrder) : StrOrder[i] = s

\* a < b for two values of one kind (numbers, or strings)
ValueLess(a, b) ==
    IF a.t = "s" THEN StrRank(a.s) < StrRank(b.s) ELSE a.n < b.n

\* sorted(S) for a finite set S of values of one kind
RECURSIVE SortedValues(_)
SortedValues(S) ==
    IF S = {} THEN <<>>
    ELSE LET m == CHOOSE x \in S : \A y \in S \ {x} : ValueLess(x, y)
         IN <<m>> \o SortedValues(S \ {m})

\* sorted(S) for a finite set S of strings
RECURSIVE SortedStrings(_)
SortedStrings(S) ==
    IF S = {} THEN <<>>
    ELSE LET m == CHOOSE x \in S : \A y \in S \ {x} : StrRank(x) < StrRank(y)
         IN <<m>> \o SortedStrings(S \ {m})

Range(f) == {f[i] : i \in DOMAIN f}

Reverse(s) == [i \in 1..Len(s) |-> s[Len(s) + 1 - i]]

(***************************************************************************)
(* validate_data.py: issues, reports, dtype table.                         *)
(***************************************************************************)
ValidationIssue(level, column, message, context) ==
    [level |-> level, column |-> column, message |-> message, context |-> context]

\* ValidationReport; validated_at is a clock reading and is left out
ValidationReport(issues, data_signature, schema_version) ==
    [issues |-> issues, data_signature |-> data_signature,
     schema_version |-> schema_version]

\* ValidationReport.errors / .warnings
Errors(report) == SelectSeq(report.issues, LAMBDA i : i.level = "ERROR")

Warnings(report) == SelectSeq(report.issues, LAMBDA i : i.level = "WARN")

\* ValidationReport.has_errors
HasErrors(report) == Len(Errors(report)) > 0

\* str.lower() on the dtype names a schema of the model declares
Lower(s) ==
    CASE s = "Float" -> "float"
      [] s = "INTEGER" -> "integer"
      [] OTHER -> s

SupportedDtypes ==
    {"integer", "float", "number", "string", "boolean", "datetime", "category"}

\* a table in which "number" accepts floats only
PandasTypeChecksFloatOnly(name) ==
    CASE name = "integer" -> {"int64"}
      [] name = "float" -> {"float64"}
      [] name = "number" -> {"float64"}
      [] name = "string" -> {"object"}
      [] name = "boolean" -> {"bool"}
      [] name = "datetime" -> {"datetime64[ns]"}
      [] name = "category" -> {"category"}

\* _PANDAS_TYPE_CHECKS: the observed dtypes each declared name accepts
PandasTypeChecks(name) ==
    CASE name = "integer" -> {"int64"}
      [] name = "float" -> {"float64"}
      [] name = "number" -> {"float64", "int64"}
      [] name = "string" -> {"object"}
      [] name = "boolean" -> {"bool"}
      [] name = "datetime" -> {"datetime64[ns]"}
      [] name = "category" -> {"category"}

\* _series_has_dtype: [raised |-> TRUE, message] for the ValueError, else
\* [raised |-> FALSE, ok]
SeriesHasDtype(observed, expected) ==
    LET expected_lower == Lower(expected)
    IN IF expected_lower \notin SupportedDtypes
       THEN [raised |-> TRUE,
             message |-> "Unsupported dtype in schema: " \o expected]
       ELSE [raised |-> FALSE, ok |-> observed \in PandasTypeChecks(expected_lower)]

(***************************************************************************)
(* Data signature: sha256 of DataFrame.to_csv(index=False).                *)
(***************************************************************************)
\* the text to_csv writes for one cell of a column of the given dtype
CellText(dtype, v) ==
    IF v = Null THEN ""
    ELSE IF v.t = "s" THEN v.s
    ELSE IF dtype = "float64" THEN ToString(v.n) \o ".0"
    ELSE ToString(v.n)

RECURSIVE JoinComma(_)
JoinComma(fields) ==
    IF Len(fields) = 0 THEN ""
    ELSE IF Len(fields) = 1 THEN fields[1]
    ELSE fields[1] \o "," \o JoinComma(Tail(fields))

\* csv.writer, QUOTE_MINIMAL: a row that is one empty field is written ""
CsvLine(fields) ==
    IF Len(fields) = 1 /\ fields[1] = "" THEN "\"\"\n"
    ELSE JoinComma(fields) \o "\n"

NRows(df) == IF Len(df.columns) = 0 THEN 0 ELSE Len(df.data[df.columns[1]])

RECURSIVE CsvRows(_, _)
CsvRows(df, i) ==
    IF i > NRows(df) THEN ""
    ELSE CsvLine([c \in 1..Len(df.columns) |->
                    CellText(df.dtype[df.columns[c]], df.data[df.columns[c]][i])])
         \o CsvRows(df, i + 1)

ToCsv(df) == CsvLine(df.columns) \o CsvRows(df, 1)

\* hashlib.sha256(...).hexdigest(), taken as collision-free
Sha256(bytes) == [sha256 |-> bytes]

HashDataframe(df) == Sha256(ToCsv(df))

(***************************************************************************)
(* validate_dataframe: the checks of one declared column.                  *)
(***************************************************************************)
HasColumn(df, name) == \E i \in 1..Len(df.columns) : df.columns[i] = name

\* series.dropna()
DropNa(cells) == SelectSeq(cells, LAMBDA v : ~IsNa(v))

\* int(series.isna().sum())
NullCount(cells) == Len(SelectSeq(cells, IsNa))

\* the numpy scalar (or Python object) a cell yields when the array is iterated
Scalar(dtype, v) ==
    IF v.t = "s" THEN v
    ELSE IF dtype = "int64" THEN NpInt64(v.n)
    ELSE NpFloat64(v.n)

\* set(series.dropna().unique())
UniqueValues(dtype, cells) == {Scalar(dtype, v) : v \in Range(DropNa(cells))}

\* Python ==, the equality set difference uses
PyEq(a, b) ==
    IF a.t = "s" \/ b.t = "s" THEN a = b
    ELSE a.n = b.n

\* a missing column reported as an ERROR whether required or not
MissingColumnIssueAlwaysError(cs) ==
    <<[level |-> "ERROR", column |-> cs.name, message |-> "Missing required column",
       context |-> EmptyDict]>>

MissingColumnIssue(cs) ==
    IF cs.required
    THEN <<ValidationIssue("ERROR", cs.name, "Missing required column", EmptyDict)>>
    ELSE <<ValidationIssue("WARN", cs.name, "Optional column missing", EmptyDict)>>

NullIssues(cs, cells) ==
    IF ~cs.nullable /\ \E i \in 1..Len(cells) : IsNa(cells[i])
    THEN <<ValidationIssue("ERROR", cs.name, "Null values not permitted",
                           [null_count |-> NullCount(cells)])>>
    ELSE <<>>

\* a variant that goes on to the mismatch issue after the ValueError
DtypeIssuesDuplicated(cs, observed) ==
    LET res == SeriesHasDtype(observed, cs.dtype)
    IN IF res.raised
       THEN <<[level |-> "ERROR", column |-> cs.name, message |-> res.message,
               context |-> EmptyDict],
              [level |-> "ERROR", column |-> cs.name, message |-> "Unexpected dtype",
               context |-> [observed |-> observed, expected |-> cs.dtype]]>>
       ELSE IF ~res.ok
       THEN <<[level |-> "ERROR", column |-> cs.name, message |-> "Unexpected dtype",
               context |-> [observed |-> observed, expected |-> cs.dtype]]>>
       ELSE <<>>

DtypeIssues(cs, observed) ==
    LET res == SeriesHasDtype(observed, cs.dtype)
    IN IF res.raised
       THEN <<ValidationIssue("ERROR", cs.name, res.message, EmptyDict)>>
       ELSE IF ~res.ok
       THEN <<ValidationIssue("ERROR", cs.name, "Unexpected dtype",
                              [observed |-> observed, expected |-> cs.dtype])>>
       ELSE <<>>

AllowedIssues(cs, observed, cells) ==
    IF cs.allowed_values # None
    THEN LET invalid_values ==
                 SortedValues({u \in UniqueValues(observed, cells) :
                                 \A a \in cs.allowed_values.items : ~PyEq(u, a)})
         IN IF Len(invalid_values) > 0
            THEN <<ValidationIssue("ERROR", cs.name, "Values outside allowed set",
                                   [invalid_values |-> invalid_values])>>
            ELSE <<>>
    ELSE <<>>

\* the minimum taken as an exclusive bound
MinimumIssuesInclusive(cs, cells) ==
    IF cs.minimum # None
    THEN LET below == SelectSeq(DropNa(cells), LAMBDA v : v.n <= cs.minimum.n)
         IN IF Len(below) > 0
            THEN <<[level |-> "ERROR", column |-> cs.name,
                    message |-> "Values below minimum",
                    context |-> [minimum |-> cs.minimum, count |-> Len(below)]]>>
            ELSE <<>>
    ELSE <<>>

MinimumIssues(cs, cells) ==
    IF cs.minimum # None
    THEN LET below == SelectSeq(DropNa(cells), LAMBDA v : v.n < cs.minimum.n)
         IN IF Len(below) > 0
            THEN <<ValidationIssue("ERROR", cs.name, "Values below minimum",
                                   [minimum |-> cs.minimum, count |-> Len(below)])>>
            ELSE <<>>
    ELSE <<>>

MaximumIssues(cs, cells) ==
    IF cs.maximum # None
    THEN LET above == SelectSeq(DropNa(cells), LAMBDA v : v.n > cs.maximum.n)
         IN IF Len(above) > 0
            THEN <<ValidationIssue("ERROR", cs.name, "Values above maximum",
                                   [maximum |-> cs.maximum, count |-> Len(above)])>>
            ELSE <<>>
    ELSE <<>>

\* series.dropna() < bound raises TypeError when the cells are strings
ComparisonRaises(df, cs) ==
    /\ HasColumn(df, cs.name)
    /\ cs.minimum # None \/ cs.maximum # None
    /\ \E v \in Range(DropNa(df.data[cs.name])) : v.t = "s"

\* the body of the loop over schema.columns, for one column
ColumnIssues(df, cs) ==
    IF ~HasColumn(df, cs.name) THEN MissingColumnIssue(cs)
    ELSE LET cells == df.data[cs.name]
             observed == df.dtype[cs.name]
         IN NullIssues(cs, cells) \o DtypeIssues(cs, observed)
            \o AllowedIssues(cs, observed, cells)
            \o MinimumIssues(cs, cells) \o MaximumIssues(cs, cells)

RECURSIVE DeclaredIssues(_, _, _)
DeclaredIssues(df, columns, i) ==
    IF i > Len(columns) THEN <<>>
    ELSE ColumnIssues(df, columns[i]) \o DeclaredIssues(df, columns, i + 1)

\* present_columns after the loop: the dataset's columns no declaration named
PresentColumns(df, schema) ==
    Range(df.columns) \ {schema.columns[i].name : i \in 1..Len(schema.columns)}

\* the extra columns in descending order
ExtraOrderDescending(present_columns) == Reverse(SortedStrings(present_columns))

\* sorted(present_columns)
ExtraOrder(present_columns) == SortedStrings(present_columns)

ExtraIssues(df, schema) ==
    LET extras == ExtraOrder(PresentColumns(df, schema))
    IN [i \in 1..Len(extras) |->
          ValidationIssue("WARN", extras[i], "Unexpected column present", EmptyDict)]

AllIssues(df, schema) ==
    DeclaredIssues(df, schema.columns, 1) \o ExtraIssues(df, schema)


(***************************************************************************)
(* validate_dataframe: the report, the audit log line, the halt policy.    *)
(***************************************************************************)
\* the values an issue's context holds in a list
ContextScalars(issue) ==
    IF "invalid_values" \in DOMAIN issue.context
    THEN Range(issue.context.invalid_values)
    ELSE {}

\* json.dumps(...) without default=: TypeError("Object of type int64 is not
\* JSON serializable") for a numpy.int64; numpy.float64 is a float, str a str
JsonDumpsRaises(report) ==
    \E i \in 1..Len(report.issues) :
        \E v \in ContextScalars(report.issues[i]) : v.t = "numpy.int64"

\* the line written to log_path: {"ts": ..., **report.to_dict()}; ts and
\* validated_at are clock readings and are left out
LogLine(report) ==
    [issues |-> report.issues, data_signature |-> report.data_signature,
     schema_version |-> report.schema_version]

\* with log_path.open("a") as fh: fh.write(json.dumps(...) + "\n")
\* open("a") creates the file; json.dumps runs before fh.write
AppendLog(log, report) ==
    IF JsonDumpsRaises(report)
    THEN [exists |-> TRUE, lines |-> log.lines]
    ELSE [exists |-> TRUE, lines |-> Append(log.lines, LogLine(report))]

HaltMessage(report) ==
    "Validation failed with " \o ToString(Len(Errors(report))) \o " error(s)"

\* lines 280-283: raise ValidationError or return the report
HaltPolicy(report, halt_on_error) ==
    IF halt_on_error /\ HasErrors(report)
    THEN [status |-> "raised", exc |-> "ValidationError",
          message |-> HaltMessage(report), report |-> report]
    ELSE [status |-> "returned", report |-> report]

\* validate_dataframe(df, schema, log_path=..., halt_on_error=...) run on the
\* log file `log`: [out |-> the outcome, log |-> the file afterwards].
\* log_path is TRUE for "the log path" and FALSE for None.  A raised outcome
\* keeps the report the call had built (None when it had built none).
ValidateDataframeResult(df, schema, log_path, halt_on_error, log) ==
    IF \E i \in 1..Len(schema.columns) : ComparisonRaises(df, schema.columns[i])
    THEN [out |-> [status |-> "raised", exc |-> "TypeError", report |-> None],
          log |-> log]
    ELSE LET report == ValidationReport(AllIssues(df, schema), HashDataframe(df),
                                        schema.version)
         IN IF log_path /\ JsonDumpsRaises(report)
            THEN [out |-> [status |-> "raised", exc |-> "TypeError",
                           report |-> report],
                  log |-> AppendLog(log, report)]
            ELSE [out |-> HaltPolicy(report, halt_on_error),
                  log |-> IF log_path THEN AppendLog(log, report) ELSE log]

(***************************************************************************)
(* validate_charts.py.                                                     *)
(*                                                                         *)
(* Floats of the chart arithmetic are exact multiples of 1e-7, counted in  *)
(* ticks: Float(k) is k * 1e-7.  An optional str field (y, aggregation,    *)
(* data_signature) is None or Str(s); the digest of a dataset is the       *)
(* record Sha256(...).                                                     *)
(***************************************************************************)
TicksPerUnit == 10 * 1000 * 1000

Float(k) == [t |-> "f", k |-> k]

\* tolerance: float = 1e-6, in ticks
DefaultTolerance == 10

\* round(6) keeps multiples of 1e-6: this many ticks
TicksPerRound == 10

ChartSpec(identifier, kind, x, y, aggregation, filters, data_signature) ==
    [identifier |-> identifier, kind |-> kind, x |-> x, y |-> y,
     aggregation |-> aggregation, filters |-> filters,
     data_signature |-> data_signature]

ChartIssue(identifier, level, message, context) ==
    [identifier |-> identifier, level |-> level, message |-> message,
     context |-> context]

ChartValidationReport(issues, data_signature) ==
    [issues |-> issues, data_signature |-> data_signature]

\* ChartValidationReport.has_errors
ChartHasErrors(report) ==
    \E i \in 1..Len(report.issues) : report.issues[i].level = "ERROR"

\* the rows of df, in order, whose index satisfies Keep
SelectRows(df, Keep(_)) ==
    LET kept == SelectSeq([i \in 1..NRows(df) |-> i], Keep)
    IN [columns |-> df.columns,
        dtype |-> df.dtype,
        data |-> [c \in DOMAIN df.data |->
                    [j \in 1..Len(kept) |-> df.data[c][kept[j]]]]]

\* one cell against a filter's expected value: isin(list(expected)) for a
\* list, == for a scalar; a null cell matches neither
FilterMatches(cell, expected) ==
    IF expected.t = "list" THEN cell \in expected.items
    ELSE cell = expected

\* _apply_filters from the i-th filter on; filters is the dict's items in
\* order.  [raised |-> TRUE, column] for the KeyError, else
\* [raised |-> FALSE, df |-> the filtered frame]
RECURSIVE ApplyFiltersFrom(_, _, _, _)
ApplyFiltersFrom(df, filters, filtered, i) ==
    IF i > Len(filters) THEN [raised |-> FALSE, df |-> filtered]
    ELSE IF ~HasColumn(df, filters[i].column)
    THEN [raised |-> TRUE, column |-> filters[i].column]
    ELSE ApplyFiltersFrom(df, filters,
             SelectRows(filtered, LAMBDA r :
                 FilterMatches(filtered.data[filters[i].column][r],
                               filters[i].expected)),
             i + 1)

\* a variant that skips the filters whose column the dataset lacks
ApplyFiltersKnownColumns(df, filters) ==
    ApplyFiltersFrom(df, SelectSeq(filters, LAMBDA f : HasColumn(df, f.column)), df, 1)

ApplyFilters(df, filters) == ApplyFiltersFrom(df, filters, df, 1)

RECURSIVE SumCells(_)
SumCells(cells) ==
    IF Len(cells) = 0 THEN 0 ELSE cells[1].n + SumCells(Tail(cells))

\* the aggregated value of one group's y cells, as a float
Aggregate(aggregation, cells) ==
    LET present == DropNa(cells)
    IN CASE aggregation = "mean" ->
              IF Len(present) = 0 THEN Null
              ELSE Float((SumCells(present) * TicksPerUnit) \div Len(present))
         [] aggregation = "sum" -> Float(SumCells(present) * TicksPerUnit)
         [] aggregation = "count" -> Float(Len(present) * TicksPerUnit)

\* filtered.groupby(x)[y].<aggregation>().reset_index().sort_values(x)
\*    .reset_index(drop=True): one row per non-null key, keys ascending
GroupAggregate(filtered, x, y, aggregation) ==
    LET keys == SortedValues(Range(DropNa(filtered.data[x])))
        Group(k) == SelectRows(filtered, LAMBDA r : filtered.data[x][r] = k).data[y]
    IN [columns |-> <<x, y>>,
        dtype |-> (x :> filtered.dtype[x]) @@ (y :> "float64"),
        data |-> (x :> keys)
                 @@ (y :> [j \in 1..Len(keys) |-> Aggregate(aggregation, Group(keys[j]))])]

\* the row indexes of a frame in the order sort_values(x) gives: ascending,
\* nulls last, equal keys in their original order
RECURSIVE SortedIndexes(_, _)
SortedIndexes(cells, left) ==
    IF left = {} THEN <<>>
    ELSE LET Before(i, j) ==
                 \/ cells[i] # Null /\ cells[j] = Null
                 \/ cells[i] # Null /\ cells[j] # Null /\ ValueLess(cells[i], cells[j])
                 \/ (cells[i] = cells[j] /\ i < j)
             m == CHOOSE i \in left : \A j \in left \ {i} : Before(i, j)
         IN <<m>> \o SortedIndexes(cells, left \ {m})

\* a variant that leaves the rows in their order
SortValuesUnsorted(frame, x) == frame

\* chart_data.sort_values(x).reset_index(drop=True)
SortValues(frame, x) ==
    LET order == SortedIndexes(frame.data[x], 1..NRows(frame))
    IN [columns |-> frame.columns,
        dtype |-> frame.dtype,
        data |-> [c \in DOMAIN frame.data |->
                    [j \in 1..Len(order) |-> frame.data[c][order[j]]]]]

\* Series.equals: the same dtype, the same length, equal cells (nulls in the
\* same places are equal)
SeriesEquals(dtype1, cells1, dtype2, cells2) ==
    dtype1 = dtype2 /\ cells1 = cells2

\* k ticks divided by d, rounded half to even
RoundHalfEven(k, d) ==
    LET f == k \div d
        r == k % d
    IN IF 2 * r < d THEN f
       ELSE IF 2 * r > d THEN f + 1
       ELSE IF f % 2 = 0 THEN f ELSE f + 1

\* series.astype(float).round(6), cell by cell
Round6(v) ==
    IF v = Null THEN Null
    ELSE Float(RoundHalfEven(v.k, TicksPerRound) * TicksPerRound)

Abs(n) == IF n < 0 THEN -n ELSE n

\* (expected - candidate).abs(): the deltas that are numbers (a NaN delta is
\* greater than nothing and is skipped by max())
Deltas(expected, candidate) ==
    {Abs(expected[i].k - candidate[i].k) :
        i \in {j \in 1..Len(expected) : expected[j] # Null /\ candidate[j] # Null}}

SetMax(S) == CHOOSE m \in S : \A n \in S : n <= m

NoIssue == [raised |-> FALSE, issue |-> None]

Found(issue) == [raised |-> FALSE, issue |-> issue]

Raised(exc, message) == [raised |-> TRUE, exc |-> exc, message |-> message]

\* a variant without the tolerance: any difference of the rounded values is
\* an issue
BarValueCheckRoundedOnly(spec, expected, candidate, tolerance) ==
    IF [i \in 1..Len(expected) |-> Round6(expected[i])]
         # [i \in 1..Len(candidate) |-> Round6(candidate[i])]
    THEN Found(ChartIssue(spec.identifier, "ERROR",
                          "Aggregated values differ from data.",
                          [max_delta |-> Float(SetMax(Deltas(expected, candidate) \cup {0}))]))
    ELSE NoIssue

\* lines 154-162 of verify_chart: the value comparison of a bar chart
BarValueCheck(spec, expected, candidate, tolerance) ==
    IF [i \in 1..Len(expected) |-> Round6(expected[i])]
         # [i \in 1..Len(candidate) |-> Round6(candidate[i])]
    THEN LET deltas == Deltas(expected, candidate)
         IN IF \E d \in deltas : d > tolerance
            THEN Found(ChartIssue(spec.identifier, "ERROR",
                                  "Aggregated values differ from data.",
                                  [max_delta |-> Float(SetMax(deltas))]))
            ELSE NoIssue
    ELSE NoIssue

\* lines 124-162 of verify_chart
BarCheck(filtered, spec, chart_data, tolerance) ==
    IF spec.y = None \/ spec.aggregation = None
    THEN Found(ChartIssue(spec.identifier, "ERROR",
                          "Bar charts must define 'y' and 'aggregation'.", EmptyDict))
    ELSE IF ~HasColumn(filtered, spec.x) THEN Raised("KeyError", spec.x)
    ELSE IF ~HasColumn(filtered, spec.y.s)
    THEN Raised("KeyError", "Column not found: " \o spec.y.s)
    ELSE IF spec.aggregation.s \notin {"mean", "sum", "count"}
    THEN Found(ChartIssue(spec.identifier, "ERROR",
                          "Unsupported aggregation: " \o spec.aggregation.s, EmptyDict))
    ELSE IF ~HasColumn(chart_data, spec.x) THEN Raised("KeyError", spec.x)
    ELSE LET expected_df == GroupAggregate(filtered, spec.x, spec.y.s,
                                           spec.aggregation.s)
             candidate == SortValues(chart_data, spec.x)
         IN IF ~SeriesEquals(expected_df.dtype[spec.x], expected_df.data[spec.x],
                             candidate.dtype[spec.x], candidate.data[spec.x])
            THEN Found(ChartIssue(spec.identifier, "ERROR",
                                  "Category mismatch between chart and data.",
                                  [expected |-> expected_df.data[spec.x],
                                   observed |-> candidate.data[spec.x]]))
            ELSE IF ~HasColumn(chart_data, spec.y.s) THEN Raised("KeyError", spec.y.s)
            ELSE BarValueCheck(spec, expected_df.data[spec.y.s],
                               candidate.data[spec.y.s], tolerance)

\* a variant that also wants the y column of the chart
LineCheckWithY(filtered, spec, chart_data) ==
    IF ~HasColumn(chart_data, spec.x) \/ ~HasColumn(filtered, spec.x)
    THEN Raised("KeyError", spec.x)
    ELSE LET known == Range(filtered.data[spec.x])
             missing == SelectSeq(chart_data.data[spec.x], LAMBDA v : v \notin known)
         IN IF Len(missing) > 0 \/ ~HasColumn(chart_data, spec.y.s)
            THEN [raised |-> FALSE,
                  issue |-> [identifier |-> spec.identifier, level |-> "ERROR",
                             message |-> "Chart includes x-values that do not exist in the dataset.",
                             context |-> [values |-> missing]]]
            ELSE NoIssue

\* lines 163-172 of verify_chart
LineCheck(filtered, spec, chart_data) ==
    IF ~HasColumn(chart_data, spec.x) \/ ~HasColumn(filtered, spec.x)
    THEN Raised("KeyError", spec.x)
    ELSE LET known == Range(filtered.data[spec.x])
             missing == SelectSeq(chart_data.data[spec.x], LAMBDA v : v \notin known)
         IN IF Len(missing) > 0
            THEN Found(ChartIssue(spec.identifier, "ERROR",
                         "Chart includes x-values that do not exist in the dataset.",
                         [values |-> missing]))
            ELSE NoIssue

\* a variant that rejects the kind, as _materialise_charts does
UnregisteredKindRaises(spec) ==
    Raised("ValueError", "Unsupported chart specification: " \o spec.kind)

\* a variant that takes the kind for an error
UnregisteredKindError(spec) ==
    [raised |-> FALSE,
     issue |-> [identifier |-> spec.identifier, level |-> "ERROR",
                message |-> "No validator registered for chart kind: " \o spec.kind,
                context |-> EmptyDict]]

\* lines 173-178 of verify_chart: a kind that is neither "bar" nor "line"
UnregisteredKind(spec) ==
    Found(ChartIssue(spec.identifier, "WARN",
                     "No validator registered for chart kind: " \o spec.kind,
                     EmptyDict))

\* verify_chart(df, spec, chart_data, tolerance=tolerance)
VerifyChart(df, spec, chart_data, tolerance) ==
    LET applied == IF Len(spec.filters) > 0 THEN ApplyFilters(df, spec.filters)
                   ELSE [raised |-> FALSE, df |-> df]
    IN IF applied.raised
       THEN Raised("KeyError", "Filter column not found: " \o applied.column)
       ELSE IF spec.kind = "bar"
       THEN BarCheck(applied.df, spec, chart_data, tolerance)
       ELSE IF spec.kind = "line"
       THEN LineCheck(applied.df, spec, chart_data)
       ELSE UnregisteredKind(spec)

\* bool(spec.data_signature): None and "" are falsy
Truthy(v) == v # None /\ v # Str("")

\* a variant that reports a stale chart twice
StaleIssuesTwice(spec, data_signature) ==
    IF Truthy(spec.data_signature) /\ spec.data_signature # data_signature
    THEN LET issue == [identifier |-> spec.identifier, level |-> "ERROR",
                       message |-> "Chart is stale relative to the dataset signature.",
                       context |-> [chart_signature |-> spec.data_signature,
                                    data_signature |-> data_signature]]
         IN <<issue, issue>>
    ELSE <<>>

\* lines 211-219 of validate_charts
StaleIssues(spec, data_signature) ==
    IF Truthy(spec.data_signature) /\ spec.data_signature # data_signature
    THEN <<ChartIssue(spec.identifier, "ERROR",
                      "Chart is stale relative to the dataset signature.",
                      [chart_signature |-> spec.data_signature,
                       data_signature |-> data_signature])>>
    ELSE <<>>

\* a variant that reports a missing output as a warning
MissingOutputWarning(spec) ==
    ChartIssue(spec.identifier, "WARN", "Chart output missing.", EmptyDict)

MissingOutputIssue(spec) ==
    ChartIssue(spec.identifier, "ERROR", "Chart output missing.", EmptyDict)

\* the loop of validate_charts from the i-th spec on, with the issues
\* collected so far; charts is a function from identifiers to frames
RECURSIVE ValidateChartsFrom(_, _, _, _, _, _, _)
ValidateChartsFrom(df, specs, charts, tolerance, data_signature, issues, i) ==
    IF i > Len(specs)
    THEN [status |-> "returned",
          report |-> ChartValidationReport(issues, data_signature)]
    ELSE LET spec == specs[i]
         IN IF spec.identifier \notin DOMAIN charts
            THEN ValidateChartsFrom(df, specs, charts, tolerance, data_signature,
                                    Append(issues, MissingOutputIssue(spec)), i + 1)
            ELSE LET res == VerifyChart(df, spec, charts[spec.identifier], tolerance)
                 IN IF res.raised
                    THEN [status |-> "raised", exc |-> res.exc,
                          message |-> res.message]
                    ELSE ValidateChartsFrom(df, specs, charts, tolerance,
                             data_signature,
                             (IF res.issue # None THEN Append(issues, res.issue)
                              ELSE issues) \o StaleIssues(spec, data_signature),
                             i + 1)

\* a variant that leaves the header line out of the hashed bytes
ChartsHashRowsOnly(df) == Sha256(CsvRows(df, 1))

\* _hash_dataframe of validate_charts.py, a copy of the validator's
ChartsHashDataframe(df) == Sha256(ToCsv(df))

\* validate_charts(df, specs, charts, tolerance=tolerance)
ValidateCharts(df, specs, charts, tolerance) ==
    ValidateChartsFrom(df, specs, charts, tolerance, ChartsHashDataframe(df), <<>>, 1)


(***************************************************************************)
(* Inputs of the model: datasets and schemas.                              *)
(***************************************************************************)
\* the columns a dataset of the model may hold; a schema may also declare "id"
AllCols == <<"age", "seg">>

\* the column lists of the datasets: every non-empty choice of columns, in
\* alphabetical and in reverse order
ColumnLists ==
    LET Sub(S) == SelectSeq(AllCols, LAMBDA c : c \in S)
    IN UNION {{Sub(S), Reverse(Sub(S))} : S \in (SUBSET Range(AllCols)) \ {{}}}

\* the series a column of n rows may hold: dtype and cells
SeriesChoices(name, n) ==
    CASE name = "age" ->
           {[dtype |-> "int64", cells |-> c] : c \in [1..n -> {Num(15), Num(30)}]}
           \cup {[dtype |-> "float64", cells |-> c] :
                   c \in [1..n -> {Null, Num(15), Num(30)}]}
      [] name = "seg" ->
           {[dtype |-> "object", cells |-> c] :
              c \in [1..n -> {Null, Str("A"), Str("B")}]}

DataFrame(cols, series) ==
    [columns |-> cols,
     dtype |-> [c \in Range(cols) |-> series[c].dtype],
     data |-> [c \in Range(cols) |-> series[c].cells]]

Datasets ==
    UNION {{DataFrame(cols, [c \in Range(AllCols) |->
                               CASE c = "age" -> a [] c = "seg" -> s]) :
              cols \in ColumnLists,
              a \in SeriesChoices("age", n),
              s \in SeriesChoices("seg", n)} : n \in 0..MaxRows}

List(items) == [t |-> "list", items |-> items]

ColumnSchema(name, dtype, required, nullable, allowed_values, minimum, maximum) ==
    [name |-> name, dtype |-> dtype, required |-> required, nullable |-> nullable,
     allowed_values |-> allowed_values, minimum |-> minimum, maximum |-> maximum]

AgeDecls ==
    {ColumnSchema("age", d, r, nl, a, mn, mx) :
        d \in {"integer", "number", "Float", "text"}, r \in BOOLEAN, nl \in BOOLEAN,
        a \in {None, List({Num(15)})},
        mn \in {None, Num(18), Num(30)}, mx \in {None, Num(15), Num(20)}}

SegDecls ==
    {ColumnSchema("seg", d, r, nl, a, mn, None) :
        d \in {"string", "integer"}, r \in BOOLEAN, nl \in BOOLEAN,
        a \in {None, List({}), List({Str("A")})}, mn \in {None, Num(18)}}

IdDecls ==
    {ColumnSchema("id", "INTEGER", r, FALSE, None, None, None) : r \in BOOLEAN}

Decls == AgeDecls \cup SegDecls \cup IdDecls

\* the declarations the two-column schemas are built from
CoreDecls ==
    {d \in Decls : /\ ~d.nullable
                   /\ d.minimum = None /\ d.maximum = None
                   /\ d.allowed_values = None
                   /\ d.dtype \in {"integer", "INTEGER", "string", "text"}}

SchemaDefinition(columns) == [columns |-> columns, version |-> None]

\* schemas: column names are unique (spec.md, section 3)
Schemas ==
    {SchemaDefinition(<<d>>) : d \in Decls}
    \cup {SchemaDefinition(<<p[1], p[2]>>) :
            p \in {q \in CoreDecls \X CoreDecls : q[1].name # q[2].name}}

\* the audit-log scenario: one-row datasets of the column "age", validated
\* against one declaration of "age"
LogDatasets == {x \in Datasets : x.columns = <<"age">> /\ NRows(x) = 1}

LogSchemas ==
    {SchemaDefinition(<<d>>) :
        d \in {x \in AgeDecls : /\ x.required /\ x.nullable
                                /\ x.dtype = "number" /\ x.maximum = None}}

(***************************************************************************)
(* Inputs of the chart checker: datasets, specs and chart frames.          *)
(***************************************************************************)
\* the datasets charts are drawn from: a category column and a numeric one
ChartDatasets == {d \in Datasets : d.columns = <<"seg", "age">>}

\* spec.filters as the dict's items, in order; "region" is in no dataset
Filter(column, expected) == [column |-> column, expected |-> expected]

FilterChoices ==
    {<<>>,
     <<Filter("seg", Str("A"))>>,
     <<Filter("age", List({Num(15)}))>>,
     <<Filter("region", Str("x"))>>,
     <<Filter("seg", Str("A")), Filter("region", Str("x"))>>}

\* kind, x, y, aggregation of the specs; "region" and "score" are in no
\* dataset and no chart, "median" is no aggregation of the checker
Shape(kind, x, y, aggregation) ==
    [kind |-> kind, x |-> x, y |-> y, aggregation |-> aggregation]

BarShapes ==
    {Shape("bar", "seg", Str("age"), Str(a)) : a \in {"mean", "sum", "count"}}

OtherShapes ==
    {Shape("bar", "seg", None, Str("mean")),
     Shape("bar", "seg", Str("age"), None),
     Shape("bar", "seg", Str("age"), Str("median")),
     Shape("bar", "region", Str("age"), Str("median")),
     Shape("bar", "seg", Str("score"), Str("mean")),
     Shape("line", "region", Str("age"), None),
     Shape("pie", "seg", Str("age"), None)}

LineShapes == {Shape("line", "seg", Str("age"), None)}

Shapes == BarShapes \cup LineShapes \cup OtherShapes

\* the signature a spec may carry: none, the empty string, the signature of
\* an earlier dataset, the signature of this dataset
SignatureChoices(df) == {None, Str(""), Str("old_signature"), HashDataframe(df)}

ChartSpecs(identifier, df) ==
    {ChartSpec(identifier, sh.kind, sh.x, sh.y, sh.aggregation, f, sig) :
        sh \in Shapes, f \in FilterChoices, sig \in SignatureChoices(df)}

\* the frame a producer that follows the spec writes (_materialise_charts):
\* the aggregated groups of a bar chart, else the filtered rows ordered by
\* "seg"; where the spec cannot be followed, the same of the unfiltered data
BaseChart(df, spec) ==
    LET applied == ApplyFilters(df, spec.filters)
        filtered == IF applied.raised THEN df ELSE applied.df
    IN IF Shape(spec.kind, spec.x, spec.y, spec.aggregation) \in BarShapes
       THEN GroupAggregate(filtered, spec.x, spec.y.s, spec.aggregation.s)
       ELSE SortValues(filtered, "seg")

WithCell(frame, column, row, v) ==
    [frame EXCEPT !.data[column][row] = v]

WithoutFirstRow(frame) == SelectRows(frame, LAMBDA r : r > 1)

WithRow(frame, row) ==
    [frame EXCEPT !.data = [c \in DOMAIN frame.data |-> Append(frame.data[c], row[c])]]

ReversedRows(frame) ==
    [frame EXCEPT !.data = [c \in DOMAIN frame.data |-> Reverse(frame.data[c])]]

WithoutColumn(frame, column) ==
    LET cols == SelectSeq(frame.columns, LAMBDA c : c # column)
    IN [columns |-> cols,
        dtype |-> [c \in Range(cols) |-> frame.dtype[c]],
        data |-> [c \in Range(cols) |-> frame.data[c]]]

\* the value of a chart's first row, off by this many ticks: less than half
\* of 1e-6, more than half of 1e-6 but within the default tolerance, beyond it
Offsets == {3, 7, 20}

ExtraRow == ("seg" :> Str("C")) @@ ("age" :> Float(TicksPerUnit))

\* the frames a chart of the spec may hold: the producer's frame, and that
\* frame with a row more, a row less, the rows reversed, a column less and,
\* for an aggregated chart, the first value off or NaN
ChartChoices(df, spec) ==
    LET base == BaseChart(df, spec)
        isBar == Shape(spec.kind, spec.x, spec.y, spec.aggregation) \in BarShapes
        isLine == Shape(spec.kind, spec.x, spec.y, spec.aggregation) \in LineShapes
        rows == {WithRow(base, ExtraRow), WithoutFirstRow(base), ReversedRows(base),
                 WithoutColumn(base, "seg")}
        values == IF NRows(base) = 0 THEN {}
                  ELSE {WithCell(base, "age", 1, Null)}
                       \cup {WithCell(base, "age", 1, Float(base.data["age"][1].k + o)) :
                               o \in {p \in Offsets : base.data["age"][1] # Null}}
    IN {base}
       \cup (IF isBar \/ isLine THEN rows ELSE {})
       \cup (IF isBar THEN values \cup {WithoutColumn(base, "age")} ELSE {})

NoCharts == [k \in {} |-> None]

\* the charts mapping of a call with one spec: no output, or one of the frames
ChartMaps(df, spec) ==
    {NoCharts} \cup {(spec.identifier :> f) : f \in ChartChoices(df, spec)}

\* the calls with one spec
SingleInputs(df) ==
    UNION {{[specs |-> <<spec>>, charts |-> c] : c \in ChartMaps(df, spec)} :
              spec \in ChartSpecs("c1", df)}

\* the specs the calls with two specs are built from
CoreSpecs(identifier, df) ==
    {spec \in ChartSpecs(identifier, df) :
        /\ Shape(spec.kind, spec.x, spec.y, spec.aggregation)
              \in {Shape("bar", "seg", Str("age"), Str("mean")),
                   Shape("pie", "seg", Str("age"), None)}
        /\ spec.filters \in {<<>>, <<Filter("region", Str("x"))>>}
        /\ spec.data_signature \in {None, Str("old_signature")}}

CoreMaps(df, spec) == {NoCharts, spec.identifier :> BaseChart(df, spec)}

\* the calls with two specs; identifiers are unique per chart
PairInputs(df) ==
    UNION {UNION {{[specs |-> <<s1, s2>>, charts |-> c1 @@ c2] :
                      c1 \in CoreMaps(df, s1), c2 \in CoreMaps(df, s2)} :
                    s2 \in CoreSpecs("c2", df)} :
              s1 \in CoreSpecs("c1", df)}

ChartInputs(df) == SingleInputs(df) \cup PairInputs(df)


(***************************************************************************)
(* The state machine.                                                      *)
(***************************************************************************)
Idle == [status |-> "idle"]

NoLog == [exists |-> FALSE, lines |-> <<>>]

\* an empty disk
NoFiles == [q \in {} |-> None]

\* nothing of integrity.py has been called; the disk is one of disks
IntegrityIdle(disks) ==
    /\ fs \in disks
    /\ clock = 0
    /\ din = None
    /\ dout = None
    /\ min = None
    /\ mout = Idle

\* nothing of the validator or the chart checker has been called; the dataset
\* is one of datasets
AuditIdle(datasets) ==
    /\ dataset \in datasets
    /\ vin = None
    /\ vout = Idle
    /\ vlog = NoLog
    /\ ncalls = 0
    /\ cin = None
    /\ cout = Idle

\* cli.main has not run
PipelineIdle == pin = None /\ pout = Idle /\ sin = None /\ sout = Idle

InitValidator(datasets) ==
    AuditIdle(datasets) /\ IntegrityIdle({NoFiles}) /\ PipelineIdle

\* validate_dataframe(df, schema, log_path=log_path, halt_on_error=...)
ValidateDataframe(schema, log_path, halt_on_error) ==
    LET res == ValidateDataframeResult(dataset, schema, log_path, halt_on_error, vlog)
    IN /\ vin' = [df |-> dataset, schema |-> schema, log_path |-> log_path,
                  halt_on_error |-> halt_on_error]
       /\ vout' = res.out
       /\ vlog' = res.log
       /\ ncalls' = ncalls + 1
       /\ UNCHANGED <<dataset, cin, cout>>
       /\ UNCHANGED integrityvars
       /\ UNCHANGED pipelinevars

\* the caller loads another dataset
LoadData(datasets) ==
    /\ dataset' \in datasets \ {dataset}
    /\ UNCHANGED <<vin, vout, vlog, ncalls, cin, cout>>
    /\ UNCHANGED integrityvars
    /\ UNCHANGED pipelinevars

\* a single call of validate_dataframe, on any dataset and any schema
InitValidate == InitValidator(Datasets)

NextValidate ==
    /\ ncalls < 1
    /\ \E schema \in Schemas : ValidateDataframe(schema, FALSE, FALSE)

SpecValidate == InitValidate /\ [][NextValidate]_vars

\* a sequence of calls of validate_dataframe that share one log file
InitLog == InitValidator(LogDatasets)

LogCall ==
    /\ ncalls < MaxCalls
    /\ \E schema \in LogSchemas, log_path \in BOOLEAN, halt_on_error \in BOOLEAN :
          ValidateDataframe(schema, log_path, halt_on_error)

LogLoad == ncalls < MaxCalls /\ LoadData(LogDatasets)

NextLog == LogCall \/ LogLoad

SpecLog == InitLog /\ [][NextLog]_vars

\* validate_charts(df, specs, charts, tolerance=tolerance)
ValidateChartsCall(specs, charts, tolerance) ==
    /\ cin' = [df |-> dataset, specs |-> specs, charts |-> charts,
               tolerance |-> tolerance]
    /\ cout' = ValidateCharts(dataset, specs, charts, tolerance)
    /\ UNCHANGED <<dataset, vin, vout, vlog, ncalls>>
    /\ UNCHANGED integrityvars
    /\ UNCHANGED pipelinevars

\* a single call of validate_charts, on any dataset, specs and charts
InitCharts == InitValidator(ChartDatasets)

NextCharts ==
    /\ cin = None
    /\ \E input \in ChartInputs(dataset) :
          ValidateChartsCall(input.specs, input.charts, DefaultTolerance)

SpecCharts == InitCharts /\ [][NextCharts]_vars


(***************************************************************************)
(* Properties of validate_dataframe.                                       *)
(***************************************************************************)
\* the step is a call of validate_dataframe
IsValidateCall == ncalls' = ncalls + 1

\* the call appended exactly one line, after the lines already in the file
AppendedOneLine(before, after) ==
    /\ Len(after.lines) = Len(before.lines) + 1
    /\ SubSeq(after.lines, 1, Len(before.lines)) = before.lines

\* C1: every call that passes log_path appends exactly one line to the log,
\* leaves every earlier line unchanged and in place, and the appended line
\* carries the data_signature of the report the call produced.
C1_AppendOnlyLog ==
    [][(IsValidateCall /\ vin'.log_path) =>
          /\ AppendedOneLine(vlog, vlog')
          /\ vlog'.lines[Len(vlog'.lines)].data_signature =
                vout'.report.data_signature]_vars

\* C2: halt policy.  With halt_on_error and at least one ERROR the call
\* raises ValidationError, naming the number of errors, after the log line
\* (if log_path is set) was appended; without halt_on_error the call returns
\* the report; with no ERROR the call returns the report under either flag.
C2_HaltPolicy ==
    [][(IsValidateCall /\ vout'.report # None) =>
          LET report == vout'.report
          IN /\ (vin'.halt_on_error /\ HasErrors(report)) =>
                   /\ vout'.status = "raised"
                   /\ vout'.exc = "ValidationError"
                   /\ vout'.message = "Validation failed with "
                        \o ToString(Len(Errors(report))) \o " error(s)"
                   /\ vin'.log_path => AppendedOneLine(vlog, vlog')
             /\ ~vin'.halt_on_error => vout'.status = "returned"
             /\ ~HasErrors(report) => vout'.status = "returned"]_vars

\* the semantic type of an observed dtype (spec.md, section 4.2)
SemanticType(observed) ==
    CASE observed = "int64" -> "integer"
      [] observed = "float64" -> "float"
      [] observed = "object" -> "string"

\* the observed dtype satisfies the declared one: the same semantic type, or
\* a declared "number" and an observed integer or float
DtypeSatisfied(observed, declared) ==
    \/ Lower(declared) = SemanticType(observed)
    \/ Lower(declared) = "number" /\ SemanticType(observed) \in {"integer", "float"}

NonNullCells(d, name) == {d.data[name][k] : k \in {j \in 1..NRows(d) : d.data[name][j] # Null}}

\* the dataset strictly satisfies every constraint of the schema
StrictlySatisfies(d, schema) ==
    \A i \in 1..Len(schema.columns) :
        LET cs == schema.columns[i]
        IN /\ cs.required => HasColumn(d, cs.name)
           /\ HasColumn(d, cs.name) =>
                 /\ ~cs.nullable => \A k \in 1..NRows(d) : d.data[cs.name][k] # Null
                 /\ DtypeSatisfied(d.dtype[cs.name], cs.dtype)
                 /\ cs.allowed_values # None =>
                       \A v \in NonNullCells(d, cs.name) :
                           \E a \in cs.allowed_values.items : v = a
                 /\ cs.minimum # None =>
                       \A v \in NonNullCells(d, cs.name) : v.n >= cs.minimum.n
                 /\ cs.maximum # None =>
                       \A v \in NonNullCells(d, cs.name) : v.n <= cs.maximum.n

\* C3: the returned report has no ERROR issue iff the dataset strictly
\* satisfies every constraint of the schema.
C3_NoErrorsIffSatisfied ==
    vout.status = "returned" =>
        (Len(Errors(vout.report)) = 0 <=> StrictlySatisfies(vin.df, vin.schema))

\* a returned report without errors for a dataset with rows and a schema that
\* declares a dtype, an allowed set and a range
C3_Witness ==
    /\ vout.status = "returned"
    /\ Len(Errors(vout.report)) = 0
    /\ NRows(vin.df) = MaxRows
    /\ \E i \in 1..Len(vin.schema.columns) :
          LET cs == vin.schema.columns[i]
          IN /\ HasColumn(vin.df, cs.name)
             /\ cs.dtype = "number" /\ vin.df.dtype[cs.name] = "int64"
             /\ ~cs.nullable
             /\ cs.allowed_values # None
             /\ cs.maximum # None

IssuesOf(report, name) == SelectSeq(report.issues, LAMBDA i : i.column = name)

\* C4: a declared column absent from the dataset gets exactly one issue,
\* ERROR "Missing required column" when required and WARN "Optional column
\* missing" when not, and no null, dtype, allowed-value or range issue.
C4_MissingColumn ==
    vout.status = "returned" =>
        \A i \in 1..Len(vin.schema.columns) :
            LET cs == vin.schema.columns[i]
            IN ~HasColumn(vin.df, cs.name) =>
                  IssuesOf(vout.report, cs.name) =
                     <<[level |-> IF cs.required THEN "ERROR" ELSE "WARN",
                        column |-> cs.name,
                        message |-> IF cs.required THEN "Missing required column"
                                    ELSE "Optional column missing",
                        context |-> EmptyDict]>>

\* a report for a schema with a required and an optional column, both absent
C4_Witness ==
    /\ vout.status = "returned"
    /\ Len(vin.schema.columns) = 2
    /\ \A i \in 1..2 : ~HasColumn(vin.df, vin.schema.columns[i].name)
    /\ vin.schema.columns[1].required /\ ~vin.schema.columns[2].required
    /\ Len(vin.schema.columns[1].dtype) > 0
    /\ Len(IssuesOf(vout.report, vin.schema.columns[2].name)) = 1

DeclaredNames(schema) == {schema.columns[i].name : i \in 1..Len(schema.columns)}

ExtraIndexes(report) ==
    {i \in 1..Len(report.issues) :
        report.issues[i].message = "Unexpected column present"}

\* C5: every dataset column the schema does not declare gets exactly one
\* WARN "Unexpected column present"; these issues follow all issues of
\* declared columns, in ascending order of column name; no declared column
\* gets one.
C5_UnexpectedColumns ==
    vout.status = "returned" =>
        LET issues == vout.report.issues
            extra == ExtraIndexes(vout.report)
            declared == DeclaredNames(vin.schema)
        IN /\ \A c \in Range(vin.df.columns) \ declared :
                 IssuesOf(vout.report, c) =
                    <<[level |-> "WARN", column |-> c,
                       message |-> "Unexpected column present",
                       context |-> EmptyDict]>>
           /\ \A i \in extra : issues[i].column \notin declared
           /\ \A i \in extra : \A j \in 1..Len(issues) :
                 j \notin extra => j < i
           /\ \A i \in extra : \A j \in extra :
                 i < j => StrRank(issues[i].column) < StrRank(issues[j].column)

\* two undeclared columns that the dataset holds in descending order, after
\* an issue of a declared column
C5_Witness ==
    /\ vout.status = "returned"
    /\ vin.df.columns = <<"seg", "age">>
    /\ Len(vout.report.issues) = 3
    /\ vout.report.issues[2].column = "age"
    /\ vout.report.issues[3].column = "seg"
    /\ ExtraIndexes(vout.report) = {2, 3}

CountWhere(cells, Test(_)) == Cardinality({k \in 1..Len(cells) : Test(cells[k])})

\* C6: the two bounds are checked independently: one ERROR "Values below
\* minimum" iff some non-null value is strictly below the minimum, with the
\* bound and the number of such values in context; one ERROR "Values above
\* maximum" likewise; nulls never count.
C6_RangeChecks ==
    vout.status = "returned" =>
        \A i \in 1..Len(vin.schema.columns) :
            LET cs == vin.schema.columns[i]
                cells == vin.df.data[cs.name]
                nbelow == CountWhere(cells, LAMBDA v : v # Null /\ v.n < cs.minimum.n)
                nabove == CountWhere(cells, LAMBDA v : v # Null /\ v.n > cs.maximum.n)
                below == SelectSeq(vout.report.issues, LAMBDA x :
                            x.column = cs.name /\ x.message = "Values below minimum")
                above == SelectSeq(vout.report.issues, LAMBDA x :
                            x.column = cs.name /\ x.message = "Values above maximum")
            IN HasColumn(vin.df, cs.name) =>
                  /\ below = IF cs.minimum # None /\ nbelow > 0
                             THEN <<[level |-> "ERROR", column |-> cs.name,
                                     message |-> "Values below minimum",
                                     context |-> [minimum |-> cs.minimum,
                                                  count |-> nbelow]]>>
                             ELSE <<>>
                  /\ above = IF cs.maximum # None /\ nabove > 0
                             THEN <<[level |-> "ERROR", column |-> cs.name,
                                     message |-> "Values above maximum",
                                     context |-> [maximum |-> cs.maximum,
                                                  count |-> nabove]]>>
                             ELSE <<>>

\* one call that yields both issues for one column, one of whose values
\* equals the minimum
C6_Witness ==
    /\ vout.status = "returned"
    /\ \E i \in 1..Len(vin.schema.columns) :
          LET cs == vin.schema.columns[i]
          IN /\ HasColumn(vin.df, cs.name)
             /\ cs.minimum = Num(30) /\ cs.maximum = Num(20)
             /\ vin.df.data[cs.name] = <<Num(15), Num(30)>>
             /\ Len(SelectSeq(vout.report.issues, LAMBDA x :
                      x.column = cs.name /\ x.level = "ERROR"
                      /\ "count" \in DOMAIN x.context)) = 2

(***************************************************************************)
(* Properties of validate_charts.                                          *)
(***************************************************************************)
\* a call of validate_charts has been made
ChartsCalled == cin # None

HasOutput(spec) == spec.identifier \in DOMAIN cin.charts

OutputOf(spec) == cin.charts[spec.identifier]

\* every column the spec names exists where the checker may look it up: the
\* filter columns, x and y in the dataset, x and y in the chart
ColumnsResolve(spec) ==
    /\ \A j \in 1..Len(spec.filters) : HasColumn(cin.df, spec.filters[j].column)
    /\ HasColumn(cin.df, spec.x) /\ HasColumn(OutputOf(spec), spec.x)
    /\ spec.y # None =>
          HasColumn(cin.df, spec.y.s) /\ HasColumn(OutputOf(spec), spec.y.s)

HasUnknownFilterColumn(spec) ==
    \E j \in 1..Len(spec.filters) : ~HasColumn(cin.df, spec.filters[j].column)

\* C8: when a spec with a materialized output has a filter on a column that
\* is not in the dataset, KeyError propagates out of validate_charts, whatever
\* the kind of the spec: no report is returned, and the issues collected for
\* earlier specs are lost.
C8_UnknownFilterColumnRaises ==
    (/\ ChartsCalled
     /\ \E i \in 1..Len(cin.specs) :
           HasOutput(cin.specs[i]) /\ HasUnknownFilterColumn(cin.specs[i]))
    => /\ cout.status = "raised"
       /\ cout.exc = "KeyError"
       /\ "report" \notin DOMAIN cout

\* the first spec has no output, which is an issue; the second, of an
\* unregistered kind, has an output and a filter on an unknown column
C8_Witness ==
    /\ ChartsCalled
    /\ Len(cin.specs) = 2
    /\ ~HasOutput(cin.specs[1])
    /\ HasOutput(cin.specs[2]) /\ HasUnknownFilterColumn(cin.specs[2])
    /\ cin.specs[2].kind = "pie"
    /\ cout.status = "raised"
    /\ cout.message = "Filter column not found: region"

\* the rows of the dataset that pass the filters of the spec
Filtered(spec) == ApplyFilters(cin.df, spec.filters).df

\* the rows of the filtered dataset whose x is the category k and whose y is
\* not null
GroupRows(spec, k) ==
    LET f == Filtered(spec)
    IN {r \in 1..NRows(f) : f.data[spec.x][r] = k /\ f.data[spec.y.s][r] # Null}

RECURSIVE SumOver(_, _)
SumOver(cells, rows) ==
    IF rows = {} THEN 0
    ELSE LET r == CHOOSE q \in rows : TRUE
         IN cells[r].n + SumOver(cells, rows \ {r})

\* the value recomputed from the raw data for the category k: the mean, the
\* sum or the count of the non-null y values of the category
Recomputed(spec, k) ==
    LET rows == GroupRows(spec, k)
        total == SumOver(Filtered(spec).data[spec.y.s], rows)
        n == Cardinality(rows)
    IN CASE spec.aggregation.s = "mean" ->
              IF n = 0 THEN Null ELSE Float((total * TicksPerUnit) \div n)
         [] spec.aggregation.s = "sum" -> Float(total * TicksPerUnit)
         [] spec.aggregation.s = "count" -> Float(n * TicksPerUnit)

\* the chart has one row for each category of the filtered data that is not
\* null, and no other row
CategoriesAgree(spec) ==
    LET cats == OutputOf(spec).data[spec.x]
    IN /\ OutputOf(spec).dtype[spec.x] = cin.df.dtype[spec.x]
       /\ Range(cats) = Range(Filtered(spec).data[spec.x]) \ {Null}
       /\ Cardinality(Range(cats)) = Len(cats)

\* the chart's value and the recomputed one, row by row of the chart
ValuePairs(spec) ==
    LET chart == OutputOf(spec)
    IN {<<Recomputed(spec, chart.data[spec.x][r]), chart.data[spec.y.s][r]>> :
           r \in 1..NRows(chart)}

\* the recomputation the spec declares is defined: a bar chart with y and one
\* of the three aggregations, or a line chart, over columns that exist
CanRecompute(spec) ==
    /\ ColumnsResolve(spec)
    /\ spec.y # None
    /\ \/ spec.kind = "line"
       \/ /\ spec.kind = "bar"
          /\ spec.aggregation # None
          /\ spec.aggregation.s \in {"mean", "sum", "count"}

\* the (x, y) rows of a frame
PointsOf(frame, spec) ==
    [r \in 1..NRows(frame) |-> <<frame.data[spec.x][r], frame.data[spec.y.s][r]>>]

SameRows(a, b) ==
    /\ Len(a) = Len(b)
    /\ \A p \in Range(a) \cup Range(b) :
          CountWhere(a, LAMBDA v : v = p) = CountWhere(b, LAMBDA v : v = p)

\* the output is exactly what the recomputation gives: the aggregated value
\* of every category for a bar chart, the filtered points for a line chart
ExactlyReproduces(spec) ==
    /\ CanRecompute(spec)
    /\ IF spec.kind = "bar"
       THEN /\ CategoriesAgree(spec)
            /\ \A p \in ValuePairs(spec) : p[1] = p[2]
       ELSE SameRows(PointsOf(OutputOf(spec), spec), PointsOf(Filtered(spec), spec))

ValuesWithinTolerance(spec) ==
    \/ \A p \in ValuePairs(spec) : Round6(p[1]) = Round6(p[2])
    \/ \A p \in ValuePairs(spec) :
          (p[1] # Null /\ p[2] # Null) => Abs(p[1].k - p[2].k) <= cin.tolerance

\* what the checker verifies of an output, by kind
PassesKindCheck(spec) ==
    CASE spec.kind = "bar" ->
           /\ spec.y # None /\ spec.aggregation # None
           /\ spec.aggregation.s \in {"mean", "sum", "count"}
           /\ CategoriesAgree(spec)
           /\ ValuesWithinTolerance(spec)
      [] spec.kind = "line" ->
           Range(OutputOf(spec).data[spec.x]) \subseteq Range(Filtered(spec).data[spec.x])
      [] OTHER -> TRUE

IsStaleIssue(issue, spec) ==
    /\ issue.identifier = spec.identifier
    /\ issue.level = "ERROR"
    /\ issue.message = "Chart is stale relative to the dataset signature."
    /\ issue.context = [chart_signature |-> spec.data_signature,
                        data_signature |-> cout.report.data_signature]

\* C10: for every spec that has a materialized output and whose
\* data_signature is set (not None) and differs from the computed signature
\* of the dataset, the report holds an ERROR "Chart is stale relative to the
\* dataset signature." with both signatures in context, whether or not the
\* check of the chart produced an issue.
C10_StaleWheneverSignatureDiffers ==
    (ChartsCalled /\ cout.status = "returned")
    => \A i \in 1..Len(cin.specs) :
          (/\ HasOutput(cin.specs[i])
           /\ cin.specs[i].data_signature # None
           /\ cin.specs[i].data_signature # HashDataframe(cin.df))
          => \E j \in 1..Len(cout.report.issues) :
                IsStaleIssue(cout.report.issues[j], cin.specs[i])

\* the issues of the report that carry the identifier of the spec
IssuesFor(spec) ==
    SelectSeq(cout.report.issues, LAMBDA x : x.identifier = spec.identifier)

\* C11: a spec whose identifier has no entry in charts gets exactly one
\* issue, the ERROR "Chart output missing.", and no further check: its
\* filters are not applied (an unknown filter column does not raise), no
\* check of its kind runs and no staleness issue is emitted; the loop goes on
\* with the next spec.
C11_MissingOutput ==
    ChartsCalled =>
       /\ (\A i \in 1..Len(cin.specs) : ~HasOutput(cin.specs[i]))
             => cout.status = "returned"
       /\ cout.status = "returned" =>
             \A i \in 1..Len(cin.specs) :
                ~HasOutput(cin.specs[i]) =>
                   IssuesFor(cin.specs[i]) =
                      <<[identifier |-> cin.specs[i].identifier, level |-> "ERROR",
                         message |-> "Chart output missing.", context |-> EmptyDict]>>

\* the first spec has no output, a filter on an unknown column and a stale
\* signature; the second spec, which has an output, is checked after it
C11_Witness ==
    /\ ChartsCalled
    /\ Len(cin.specs) = 2
    /\ ~HasOutput(cin.specs[1])
    /\ HasUnknownFilterColumn(cin.specs[1])
    /\ cin.specs[1].data_signature = Str("old_signature")
    /\ HasOutput(cin.specs[2])
    /\ cout.status = "returned"
    /\ Len(IssuesFor(cin.specs[1])) = 1
    /\ Len(IssuesFor(cin.specs[2])) = 2

(***************************************************************************)
(* The data signature across calls: a dataset is validated, the caller     *)
(* changes it, and validate_charts is called on what it has become.        *)
(***************************************************************************)
\* the cells a column of these datasets may hold; "seg" may hold the empty
\* string beside the missing value
SigCells(column) ==
    CASE column = "seg" -> {Null, Str(""), Str("A")}
      [] column = "age" -> {Num(15), Num(30)}

SigDatasets ==
    UNION {{DataFrame(<<"seg", "age">>,
                      [c \in {"seg", "age"} |->
                          CASE c = "seg" -> [dtype |-> "object", cells |-> sg]
                            [] c = "age" -> [dtype |-> "int64", cells |-> ag]]) :
              sg \in [1..n -> SigCells("seg")],
              ag \in [1..n -> SigCells("age")]} : n \in 0..MaxRows}

SigSchemas ==
    {SchemaDefinition(<<ColumnSchema("seg", "string", TRUE, FALSE, None, None, None)>>)}

\* the specs, captured signatures and charts of the calls: none at all, or
\* one bar chart under each captured signature, or one without output
SigChartInputs(df) ==
    LET Bar(sig) == ChartSpec("c1", "bar", "seg", Str("age"), Str("mean"), <<>>, sig)
    IN {[specs |-> <<>>, charts |-> NoCharts],
        [specs |-> <<Bar(None)>>, charts |-> NoCharts]}
       \cup {[specs |-> <<Bar(sig)>>, charts |-> "c1" :> BaseChart(df, Bar(sig))] :
               sig \in SignatureChoices(df)}

\* one row of a frame, as a function of the column
RowOf(frame, r) == [c \in DOMAIN frame.data |-> frame.data[c][r]]

\* the frame with the given rows (each a function of the column), in order
WithRows(frame, rows) ==
    [frame EXCEPT !.data = [c \in DOMAIN frame.data |->
                               [j \in 1..Len(rows) |-> rows[j][c]]]]

RowsOf(frame) == [r \in 1..NRows(frame) |-> RowOf(frame, r)]

\* the rows a caller may add to these datasets
SigRows == [{"seg", "age"} -> SigCells("seg") \cup SigCells("age")]

\* df.at[r, column] = v, with v another value than the cell holds
SetCell(column, r, v) ==
    /\ r \in 1..NRows(dataset)
    /\ v # dataset.data[column][r]
    /\ dataset' = WithCell(dataset, column, r, v)

\* a row is inserted before position pos (pos = NRows + 1 appends it)
AddRow(pos, row) ==
    /\ NRows(dataset) < MaxRows
    /\ pos \in 1..(NRows(dataset) + 1)
    /\ row["seg"] \in SigCells("seg") /\ row["age"] \in SigCells("age")
    /\ dataset' = WithRows(dataset,
                           SubSeq(RowsOf(dataset), 1, pos - 1) \o <<row>>
                           \o SubSeq(RowsOf(dataset), pos, NRows(dataset)))

\* df.drop(index=r)
RemoveRow(r) ==
    /\ r \in 1..NRows(dataset)
    /\ dataset' = SelectRows(dataset, LAMBDA i : i # r)

\* the bijections of 1..n
RowOrders(n) ==
    {f \in [1..n -> 1..n] : \A i, j \in 1..n : f[i] = f[j] => i = j}

\* df.iloc[order], an order that changes the sequence of the rows
PermuteRows(order) ==
    /\ order \in RowOrders(NRows(dataset))
    /\ dataset' = WithRows(dataset, [j \in 1..NRows(dataset) |->
                                        RowOf(dataset, order[j])])
    /\ dataset' # dataset

\* the caller changes the dataset after it was validated
SigMutate ==
    /\ vin # None /\ cin = None
    /\ \/ \E c \in {"seg", "age"}, r \in 1..MaxRows :
             \E v \in SigCells(c) : SetCell(c, r, v)
       \/ \E pos \in 1..MaxRows, row \in SigRows : AddRow(pos, row)
       \/ \E r \in 1..MaxRows : RemoveRow(r)
       \/ \E order \in UNION {RowOrders(n) : n \in 0..MaxRows} : PermuteRows(order)
    /\ UNCHANGED <<vin, vout, vlog, ncalls, cin, cout>>
    /\ UNCHANGED integrityvars
    /\ UNCHANGED pipelinevars

SigValidate ==
    /\ vin = None
    /\ \E schema \in SigSchemas : ValidateDataframe(schema, FALSE, FALSE)

SigCharts ==
    /\ vin # None /\ cin = None
    /\ \E input \in SigChartInputs(dataset) :
          ValidateChartsCall(input.specs, input.charts, DefaultTolerance)

InitSignature == InitValidator(SigDatasets)

NextSignature == SigValidate \/ SigMutate \/ SigCharts

SpecSignature == InitSignature /\ [][NextSignature]_vars

(***************************************************************************)
(* Properties of the data signature.                                       *)
(***************************************************************************)
\* both reports exist: the dataset was validated and its charts were checked
BothSigned == vout.status = "returned" /\ cout.status = "returned"

\* C12: the signature is a function of the content of the dataset alone:
\* whenever the validator and the chart checker were given the same dataset
\* (same columns, rows and values, in the same order), the ValidationReport
\* and the ChartValidationReport carry the same signature, whatever specs,
\* captured signatures and charts the chart checker was given.
C12_SignatureOfContent ==
    (BothSigned /\ vin.df = cin.df)
    => vout.report.data_signature = cout.report.data_signature

\* both calls were made on one dataset of MaxRows rows; the chart checker
\* got a spec with a stale signature and its output
C12_Witness ==
    /\ BothSigned
    /\ vin.df = cin.df
    /\ NRows(cin.df) = MaxRows
    /\ Len(cin.specs) = 1
    /\ cin.specs[1].data_signature = Str("old_signature")
    /\ HasOutput(cin.specs[1])
    /\ ChartHasErrors(cout.report)

\* b is a with the value of exactly one cell changed
OneCellChanged(a, b) ==
    /\ a.columns = b.columns /\ NRows(a) = NRows(b)
    /\ Cardinality({p \in Range(a.columns) \X (1..NRows(a)) :
                       a.data[p[1]][p[2]] # b.data[p[1]][p[2]]}) = 1

\* b is a with one row added
OneRowAdded(a, b) ==
    /\ a.columns = b.columns
    /\ \E r \in 1..NRows(b) :
          RowsOf(a) = SubSeq(RowsOf(b), 1, r - 1) \o SubSeq(RowsOf(b), r + 1, NRows(b))

\* b is a with its rows in another order
RowsPermuted(a, b) ==
    /\ a.columns = b.columns /\ NRows(a) = NRows(b)
    /\ RowsOf(a) # RowsOf(b)
    /\ \E order \in RowOrders(NRows(a)) :
          RowsOf(b) = [j \in 1..NRows(a) |-> RowsOf(a)[order[j]]]

\* C13: changing the value of one cell, adding a row, removing a row or
\* permuting the rows into a different order changes the signature (the
\* digest being collision-free over the serialized bytes).
C13_SignatureSensitive ==
    (/\ BothSigned
     /\ \/ OneCellChanged(vin.df, cin.df)
        \/ OneRowAdded(vin.df, cin.df)
        \/ OneRowAdded(cin.df, vin.df)
        \/ RowsPermuted(vin.df, cin.df))
    => vout.report.data_signature # cout.report.data_signature

(***************************************************************************)
(* integrity.py: sha256_file and sha256_dir.                               *)
(***************************************************************************)
Dir == [kind |-> "dir"]

File(bytes) == [kind |-> "file", bytes |-> bytes]

\* p.exists()
Exists(disk, path) == path \in DOMAIN disk

\* p.is_file()
IsFile(disk, path) == path \in DOMAIN disk /\ disk[path].kind = "file"

\* sha256_file(p): None unless p is a regular file, else the digest of its
\* bytes (the chunks update one hash object)
Sha256File(disk, path) ==
    IF ~Exists(disk, path) \/ ~IsFile(disk, path) THEN None
    ELSE Sha256(disk[path].bytes)

\* p.as_posix()
RECURSIVE AsPosix(_)
AsPosix(path) ==
    IF Len(path) = 0 THEN "."
    ELSE IF Len(path) = 1 THEN path[1]
    ELSE path[1] \o "/" \o AsPosix(Tail(path))

\* p.relative_to(d)
RelativeTo(path, d) == SubSeq(path, Len(d) + 1, Len(path))

IsUnder(path, d) ==
    Len(path) > Len(d) /\ SubSeq(path, 1, Len(d)) = d

\* the entries d.rglob("*") yields, in any order
Descendants(disk, d) == {q \in DOMAIN disk : IsUnder(q, d)}

\* the orders in which the file system may enumerate the entries under d
Listings(disk, d) ==
    LET entries == Descendants(disk, d)
        n == Cardinality(entries)
    IN {l \in [1..n -> entries] : \A i, j \in 1..n : l[i] = l[j] => i = j}

\* the names of the model's directory entries in the order Python compares
\* str (by code point)
PartOrder == <<"a", "b", "c1.csv", "c1.meta.json", "placeholder.txt", "sub">>

PartRank(part) == CHOOSE i \in 1..Len(PartOrder) : PartOrder[i] = part

\* Path.__lt__: the components are compared as tuples of str
RECURSIVE PathLess(_, _)
PathLess(p, q) ==
    IF Len(p) = 0 THEN Len(q) > 0
    ELSE IF Len(q) = 0 THEN FALSE
    ELSE IF p[1] # q[1] THEN PartRank(p[1]) < PartRank(q[1])
    ELSE PathLess(Tail(p), Tail(q))

RECURSIVE SortedPaths(_)
SortedPaths(S) ==
    IF S = {} THEN <<>>
    ELSE LET first == CHOOSE p \in S : \A q \in S \ {p} : PathLess(p, q)
         IN <<first>> \o SortedPaths(S \ {first})

\* a variant that keeps the order of the enumeration
Unsorted(listing) == listing

\* sorted(d.rglob("*"))
Sorted(listing) == SortedPaths(Range(listing))

\* the bytes the loop of sha256_dir feeds to the hash: for each regular file,
\* its relative path and then its content, nothing in between
RECURSIVE FoldEntries(_, _, _)
FoldEntries(disk, d, paths) ==
    IF Len(paths) = 0 THEN ""
    ELSE (IF IsFile(disk, paths[1])
          THEN AsPosix(RelativeTo(paths[1], d)) \o disk[paths[1]].bytes
          ELSE "")
         \o FoldEntries(disk, d, Tail(paths))

\* sha256_dir(d), the file system enumerating the entries as listing
Sha256Dir(disk, d, listing) == Sha256(FoldEntries(disk, d, Sorted(listing)))

(***************************************************************************)
(* Calls of sha256_dir on the charts directory.                            *)
(***************************************************************************)
ChartsDir == <<"charts">>

\* the contents a file of the model may have
FileBytes == {"", "b"}

\* a file that is absent or holds one of the contents
OptionalFile(path) == {NoFiles} \cup {path :> File(b) : b \in FileBytes}

\* the charts directory with the files a and b, and a subdirectory sub that
\* is absent, empty or holds a file a
ChartsTrees ==
    {(ChartsDir :> Dir) @@ fa @@ fb @@ sub :
        fa \in OptionalFile(ChartsDir \o <<"a">>),
        fb \in OptionalFile(ChartsDir \o <<"b">>),
        sub \in {NoFiles, (ChartsDir \o <<"sub">>) :> Dir}
                \cup {((ChartsDir \o <<"sub">>) :> Dir) @@ f :
                        f \in OptionalFile(ChartsDir \o <<"sub", "a">>) \ {NoFiles}}}

\* sha256_dir(d)
Sha256DirCall(d) ==
    /\ \E listing \in Listings(fs, d) :
          /\ din' = [d |-> d, disk |-> fs, listing |-> listing]
          /\ dout' = Sha256Dir(fs, d, listing)
    /\ UNCHANGED <<fs, clock, min, mout>>
    /\ UNCHANGED auditvars
    /\ UNCHANGED pipelinevars

\* an empty subdirectory is created or removed
ToggleEmptyDir(path) ==
    /\ Descendants(fs, path) = {}
    /\ \/ /\ ~Exists(fs, path)
          /\ fs' = (path :> Dir) @@ fs
       \/ /\ Exists(fs, path) /\ ~IsFile(fs, path)
          /\ fs' = [q \in DOMAIN fs \ {path} |-> fs[q]]
    /\ UNCHANGED <<clock, din, dout, min, mout>>
    /\ UNCHANGED auditvars
    /\ UNCHANGED pipelinevars

InitDir == AuditIdle({None}) /\ IntegrityIdle(ChartsTrees) /\ PipelineIdle

NextDir == Sha256DirCall(ChartsDir) \/ ToggleEmptyDir(ChartsDir \o <<"sub">>)

SpecDir == InitDir /\ [][NextDir]_vars

\* the regular files under d: relative path and bytes
RegularFiles(disk, d) ==
    [q \in {x \in Descendants(disk, d) : IsFile(disk, x)} |-> disk[q].bytes]

\* C14: sha256_dir is invariant to the order of enumeration: two successive
\* calls on directories that hold the same regular files (relative path and
\* bytes) return the same digest, whatever order the file system lists the
\* entries in and whatever directories the listing holds.
C14_DirOrderInvariant ==
    [][(/\ din # None /\ din' # None
        /\ din'.d = din.d
        /\ RegularFiles(din'.disk, din'.d) = RegularFiles(din.disk, din.d))
       => dout' = dout]_vars

\* a digest of two files and a subdirectory, listed in an order that is not
\* the sorted one
C14_Witness ==
    /\ din # None
    /\ Cardinality(DOMAIN RegularFiles(din.disk, din.d)) >= 2
    /\ \E q \in Descendants(din.disk, din.d) : ~IsFile(din.disk, q)
    /\ \E i \in 1..(Len(din.listing) - 1) : PathLess(din.listing[i + 1], din.listing[i])
    /\ dout # Sha256("")

(***************************************************************************)
(* integrity.py: write_manifest.  The output root is the empty path.  A    *)
(* manifest file is kept as the JSON object json.loads reads back from it  *)
(* (str, float and null survive json.dumps and json.loads unchanged); the  *)
(* canonical serialization that is hashed is built as text.  The clock     *)
(* counts ticks of half a second.  The command in SURVEYKIT_SIGN_CMD runs  *)
(* after the file is written and its result is ignored.                    *)
(***************************************************************************)
MaxClock == 2

MaxWrites == 2

TicksPerSecond == 2

\* a manifest file as json.loads reads it back
JsonFile(object) == [kind |-> "file", json |-> object]

DigitText == <<"0", "1", "2", "3", "4", "5", "6", "7", "8", "9">>

\* str(n) for a small natural
IntText(n) ==
    IF n < 10 THEN DigitText[n + 1]
    ELSE DigitText[(n \div 10) + 1] \o DigitText[(n % 10) + 1]

\* int(record["ts"])
IntOfTs(ts) == ts \div TicksPerSecond

\* repr of the float ts
FloatText(ts) ==
    IntText(ts \div TicksPerSecond)
    \o (IF ts % TicksPerSecond = 0 THEN ".0" ELSE ".5")

\* hexdigest() as a JSON string; None as null
JsonOptionalStr(v) ==
    IF v = None THEN "null" ELSE "\"" \o v.sha256 \o "\""

\* json.dumps(artefacts, sort_keys=True, separators=(",", ":"))
CanonicalArtefacts(artefacts) ==
    "{\"audit_jsonl\":" \o JsonOptionalStr(artefacts.audit_jsonl)
    \o ",\"charts_dir_hash\":" \o JsonOptionalStr(artefacts.charts_dir_hash)
    \o ",\"lineage_json\":" \o JsonOptionalStr(artefacts.lineage_json)
    \o ",\"provenance_manifest\":" \o JsonOptionalStr(artefacts.provenance_manifest)
    \o ",\"report_md\":" \o JsonOptionalStr(artefacts.report_md)
    \o "}"

\* json.dumps(record, sort_keys=True, separators=(",", ":"))
CanonicalJson(record) ==
    "{\"artefacts\":" \o CanonicalArtefacts(record.artefacts)
    \o ",\"prev_manifest_hash\":" \o JsonOptionalStr(record.prev_manifest_hash)
    \o ",\"ts\":" \o FloatText(record.ts)
    \o "}"

ReportPath == <<"report.md">>

AuditPath == <<"audit.jsonl">>

ProvenancePath == <<"provenance.manifest.json">>

LineageDir == <<"lineage">>

LineagePath == <<"lineage", "lineage.json">>

\* a variant that hashes the charts directory without looking for it
ChartsDirHashUnguarded(disk, listing) == Sha256Dir(disk, ChartsDir, listing)

\* sha256_dir(root / "charts") if (root / "charts").exists() else None
ChartsDirHash(disk, listing) ==
    IF Exists(disk, ChartsDir) THEN Sha256Dir(disk, ChartsDir, listing) ELSE None

\* the artefacts dict
Artefacts(disk, listing) ==
    [report_md |-> Sha256File(disk, ReportPath),
     audit_jsonl |-> Sha256File(disk, AuditPath),
     provenance_manifest |-> Sha256File(disk, ProvenancePath),
     charts_dir_hash |-> ChartsDirHash(disk, listing),
     lineage_json |-> Sha256File(disk, LineagePath)]

\* a variant that hashes the artefacts alone
ChainHashOfArtefacts(record) == Sha256(CanonicalArtefacts(record.artefacts))

\* chain_hash
ChainHash(record) == Sha256(CanonicalJson(record))

\* f"integrity.manifest.{int(record['ts'])}.json"
ManifestName(ts) == "integrity.manifest." \o IntText(IntOfTs(ts)) \o ".json"

\* write_manifest(root, prev_hash) at time now, the file system listing the
\* charts directory as listing: the disk it leaves and the path it returns
WriteManifestResult(disk, now, prev_hash, listing) ==
    LET record == [ts |-> now,
                   artefacts |-> Artefacts(disk, listing),
                   prev_manifest_hash |-> prev_hash]
        out == <<ManifestName(record.ts)>>
        written == [ts |-> record.ts,
                    artefacts |-> record.artefacts,
                    prev_manifest_hash |-> record.prev_manifest_hash,
                    manifest_hash |-> ChainHash(record)]
    IN [disk |-> (out :> JsonFile(written)) @@ disk, out |-> out]

\* the calls of write_manifest made so far
Calls == IF min = None THEN 0 ELSE min.call

\* write_manifest(root, prev_hash)
WriteManifest(prev_hash) ==
    /\ Calls < MaxWrites
    /\ \E listing \in Listings(fs, ChartsDir) :
          LET result == WriteManifestResult(fs, clock, prev_hash, listing)
          IN /\ fs' = result.disk
             /\ min' = [call |-> Calls + 1, prev_hash |-> prev_hash, disk |-> fs]
             /\ mout' = [status |-> "returned", out |-> result.out]
    /\ UNCHANGED <<clock, din, dout>>
    /\ UNCHANGED auditvars
    /\ UNCHANGED pipelinevars

\* time passes
Tick ==
    /\ clock < MaxClock
    /\ clock' = clock + 1
    /\ UNCHANGED <<fs, din, dout, min, mout>>
    /\ UNCHANGED auditvars
    /\ UNCHANGED pipelinevars

\* the pipeline's files under the output root are rewritten
SetFile(path, bytes) ==
    /\ IsFile(fs, path)
    /\ fs[path].bytes # bytes
    /\ fs' = [fs EXCEPT ![path] = File(bytes)]
    /\ UNCHANGED <<clock, din, dout, min, mout>>
    /\ UNCHANGED auditvars
    /\ UNCHANGED pipelinevars

\* the manifest the last call wrote, read back from the disk
LastManifest(disk) == disk[mout.out].json

\* the previous hashes a caller may pass: none, the hash of the manifest the
\* last call returned, or a hash of something else
PrevHashChoices ==
    {None, Sha256("other")}
    \cup (IF mout = Idle THEN {} ELSE {LastManifest(fs).manifest_hash})

\* the charts directory: absent, or holding the files a and b
ManifestCharts ==
    {NoFiles}
    \cup {(ChartsDir :> Dir) @@ fa @@ fb :
            fa \in OptionalFile(ChartsDir \o <<"a">>),
            fb \in OptionalFile(ChartsDir \o <<"b">>)}

ManifestDisks ==
    {report @@ charts :
        report \in OptionalFile(ReportPath), charts \in ManifestCharts}

InitManifest ==
    AuditIdle({None}) /\ IntegrityIdle(ManifestDisks) /\ PipelineIdle

NextManifest ==
    \/ \E prev_hash \in PrevHashChoices : WriteManifest(prev_hash)
    \/ Tick
    \/ \E path \in {ReportPath, ChartsDir \o <<"a">>, ChartsDir \o <<"b">>} :
          \E bytes \in FileBytes : SetFile(path, bytes)

SpecManifest == InitManifest /\ [][NextManifest]_vars

(***************************************************************************)
(* Claims about write_manifest.                                            *)
(***************************************************************************)
\* a step that is a call of write_manifest
ManifestWritten == min' # min

\* the manifest the call of this step wrote
NewManifest == fs'[mout'.out].json

ArtefactKeys ==
    {"report_md", "audit_jsonl", "provenance_manifest", "charts_dir_hash",
     "lineage_json"}

FileContent(disk, path) ==
    IF IsFile(disk, path) THEN [present |-> TRUE, bytes |-> disk[path].bytes]
    ELSE [present |-> FALSE]

\* the bytes of a tracked artefact: of the file, or of the regular files of
\* the charts directory
ArtefactContent(disk, key) ==
    CASE key = "report_md" -> FileContent(disk, ReportPath)
      [] key = "audit_jsonl" -> FileContent(disk, AuditPath)
      [] key = "provenance_manifest" -> FileContent(disk, ProvenancePath)
      [] key = "lineage_json" -> FileContent(disk, LineagePath)
      [] key = "charts_dir_hash" ->
            IF Exists(disk, ChartsDir)
            THEN [present |-> TRUE, files |-> RegularFiles(disk, ChartsDir)]
            ELSE [present |-> FALSE]

\* the artefact is there at both writes and its bytes are not the same
BytesChanged(key, before, after) ==
    /\ ArtefactContent(before, key).present
    /\ ArtefactContent(after, key).present
    /\ ArtefactContent(before, key) # ArtefactContent(after, key)

\* this step writes M2 with prev_hash = M1.manifest_hash, M1 being the
\* manifest the call before wrote with no previous hash
ChainedWrite ==
    /\ min # None
    /\ ManifestWritten
    /\ min.prev_hash = None
    /\ min'.prev_hash = LastManifest(fs).manifest_hash

\* C15: write_manifest stores its prev_hash argument unchanged as
\* prev_manifest_hash (null when omitted), so M2 written with
\* prev_hash = M1.manifest_hash has M2.prev_manifest_hash = M1.manifest_hash;
\* and if the bytes of a tracked artefact changed between the two writes,
\* M2's hash entry for that artefact differs from M1's.
C15_ChainedManifests ==
    [][/\ ManifestWritten => NewManifest.prev_manifest_hash = min'.prev_hash
       /\ ChainedWrite =>
             /\ NewManifest.prev_manifest_hash = LastManifest(fs).manifest_hash
             /\ \A key \in ArtefactKeys :
                   BytesChanged(key, min.disk, min'.disk)
                   => NewManifest.artefacts[key] # LastManifest(fs).artefacts[key]]_vars

\* the manifest files under the output root
ManifestFiles(disk) ==
    {q \in DOMAIN disk : IsFile(disk, q) /\ "json" \in DOMAIN disk[q]}

\* C16: every call of write_manifest writes a file with a name no earlier
\* call used, two calls within one wall-clock second included, so n calls
\* leave n distinct manifest files.
C16_CreateOnce == Cardinality(ManifestFiles(fs)) = Calls

\* the three fields of a manifest that are hashed
HashedFields(manifest) ==
    [ts |-> manifest.ts,
     artefacts |-> manifest.artefacts,
     prev_manifest_hash |-> manifest.prev_manifest_hash]

\* the hash a verifier recomputes from the fields
Recomputed_hash(fields) == Sha256(CanonicalJson(fields))

\* values a field may be changed to
OtherDigests == {None, Sha256(""), Sha256("b"), Sha256("tampered")}

\* the fields with one of them changed
Tampered(fields) ==
    {[fields EXCEPT !.ts = t] : t \in (0..(MaxClock + 1)) \ {fields.ts}}
    \cup {[fields EXCEPT !.prev_manifest_hash = h] :
            h \in OtherDigests \ {fields.prev_manifest_hash}}
    \cup UNION {{[fields EXCEPT !.artefacts[key] = h] :
                    h \in OtherDigests \ {fields.artefacts[key]}} :
                key \in ArtefactKeys}

\* C17: every manifest file written by write_manifest is self-verifying: the
\* hash of the canonical serialization of its fields ts, artefacts and
\* prev_manifest_hash, as stored in the file, is the stored manifest_hash, and
\* with any one of the three fields changed the recomputed hash differs from
\* the stored one.
C17_SelfVerifying ==
    \A q \in ManifestFiles(fs) :
       LET manifest == fs[q].json
       IN /\ Recomputed_hash(HashedFields(manifest)) = manifest.manifest_hash
          /\ \A changed \in Tampered(HashedFields(manifest)) :
                Recomputed_hash(changed) # manifest.manifest_hash

\* two manifests are on the disk, one of them chained to a previous hash and
\* holding the hash of an artefact
C17_Witness ==
    /\ Cardinality(ManifestFiles(fs)) = 2
    /\ \E q \in ManifestFiles(fs) :
          /\ fs[q].json.prev_manifest_hash # None
          /\ fs[q].json.artefacts.report_md # None
          /\ fs[q].json.artefacts.charts_dir_hash # None

(***************************************************************************)
(* cli.py: main.  The output root is the empty path; the configuration     *)
(* names an input CSV that exists and no chart theme, and no column name   *)
(* of the dataset holds "email" or "phone" or starts with "Q".  A run is   *)
(* folded over a record [disk, logged, written]: the disk, the audit       *)
(* entries the run appended and the paths it wrote.  One run reads the     *)
(* clock once.  Of an audit entry the fields ts, level and event are kept. *)
(***************************************************************************)
MaxRuns == 2

\* d.mkdir(parents=True, exist_ok=True) under the root
MkdirP(disk, path) == IF Exists(disk, path) THEN disk ELSE (path :> Dir) @@ disk

AuditDir == <<"audit">>

\* ensure_outputs(out_dir)
EnsureOutputs(disk) == MkdirP(MkdirP(MkdirP(disk, ChartsDir), LineageDir), AuditDir)

\* json.dumps(record, sort_keys=True) + "\n"
AuditLine(now, level, event) ==
    "{\"event\": \"" \o event \o "\", \"level\": \"" \o level
    \o "\", \"ts\": " \o FloatText(now) \o "}\n"

\* with path.open("a") as fh: fh.write(text)
AppendText(disk, path, text) ==
    (path :> File((IF IsFile(disk, path) THEN disk[path].bytes ELSE "") \o text))
    @@ disk

\* AuditLogger.log(level, event=...): the line is appended to audit.jsonl
AuditLoggerLog(run, now, level, event) ==
    [run EXCEPT
       !.disk = AppendText(@, AuditPath, AuditLine(now, level, event)),
       !.logged = Append(@, [level |-> level, event |-> event])]

\* path.write_text(bytes)
WriteText(run, path, bytes) ==
    [run EXCEPT !.disk = (path :> File(bytes)) @@ @,
                !.written = Append(@, path)]

\* load_data: the frame read from the CSV, with the weight column added
LoadedData(df) ==
    [columns |-> Append(df.columns, "_w"),
     dtype |-> ("_w" :> "float64") @@ df.dtype,
     data |-> ("_w" :> [r \in 1..NRows(df) |-> Num(1)]) @@ df.data]

ValidationSummaryPath == <<"audit", "validation_summary.json">>

ChartValidationPath == <<"audit", "chart_validation.json">>

\* the configured schema: none, a path that does not exist, or a schema
NoSchema == [t |-> "no schema"]

MissingSchema == [t |-> "missing schema"]

\* lines 226-249: the run after the try block, the outcome of the block and
\* the validation log; the outcome is "passed" with the report (None when
\* nothing was validated) or "raised"
ValidationStep(run, now, df, schema, log) ==
    IF schema = NoSchema
    THEN [run |-> run, status |-> "passed", report |-> None, log |-> log,
          out |-> Idle]
    ELSE IF schema = MissingSchema
    THEN [run |-> AuditLoggerLog(run, now, "WARN", "schema_missing"),
          status |-> "passed", report |-> None, log |-> log, out |-> Idle]
    ELSE LET res == ValidateDataframeResult(df, schema, TRUE, TRUE, log)
         IN IF res.out.status = "returned"
            THEN [run |-> AuditLoggerLog(
                             WriteText(run, ValidationSummaryPath, "{\"error_count\": 0}"),
                             now, "INFO", "data_validated"),
                  status |-> "passed", report |-> res.out.report,
                  log |-> res.log, out |-> res.out]
            ELSE IF res.out.exc = "ValidationError"
            THEN [run |-> AuditLoggerLog(run, now, "ERROR", "data_validation_failed"),
                  status |-> "raised", exc |-> "ValidationError",
                  log |-> res.log, out |-> res.out]
            ELSE [run |-> run, status |-> "raised", exc |-> res.out.exc,
                  log |-> res.log, out |-> res.out]

\* a variant of the except clause that logs the failure and goes on
ValidationStepSwallowed(run, now, df, schema, log) ==
    LET step == ValidationStep(run, now, df, schema, log)
    IN IF step.status = "raised" /\ step.exc = "ValidationError"
       THEN [run |-> step.run, status |-> "passed", report |-> None,
             log |-> step.log, out |-> step.out]
       ELSE step

\* the try block of main
ValidationBlock(run, now, df, schema, log) ==
    ValidationStep(run, now, df, schema, log)

\* "Total responses: {len(df)}" and the appendix
ReportText(df) ==
    "# Survey Results\n\nTotal responses: " \o IntText(NRows(df)) \o "\n\n\nappendix"

\* lines 251-278: retention gate, fairness table, report and summary;
\* mismatches tells whether the cross-check of the summary found any
ReportSteps(run, now, df, mismatches) ==
    LET r1 == AuditLoggerLog(
                  WriteText(run, <<"retention.json">>, "{\"ttl_days\": 365}"),
                  now, "INFO", "retention_gate_written")
        r2 == AuditLoggerLog(
                  WriteText(r1, <<"fairness_parity.csv">>,
                            "question,group,bucket,rate,gap_vs_ref\n"),
                  now, "INFO", "fairness_parity_computed")
        r3 == AuditLoggerLog(WriteText(r2, ReportPath, ReportText(df)),
                             now, "INFO", "report_rendered")
        r4 == AuditLoggerLog(
                  WriteText(WriteText(r3, <<"summary.md">>, "summary"),
                            <<"summary.json">>, "{\"findings\": []}"),
                  now, "INFO", "summary_generated")
    IN IF mismatches
       THEN AuditLoggerLog(r4, now, "WARN", "summary_crosscheck_failed")
       ELSE r4

\* the one chart the configuration may declare: age over seg, as a line
LineSpec(data_signature) ==
    ChartSpec("c1", "line", "seg", Str("age"), None, <<>>, data_signature)

\* filtered[[spec.x, spec.y]]
SelectColumns(df, cols) ==
    [columns |-> cols,
     dtype |-> [c \in Range(cols) |-> df.dtype[c]],
     data |-> [c \in Range(cols) |-> df.data[c]]]

\* _materialise_charts for a line spec: the frame kept for the check
MaterialisedLine(df, spec) ==
    SortValues(SelectColumns(df, <<spec.x, spec.y.s>>), spec.x)

\* lines 280-295: the chart branch; specs is the list of chart specs.  The
\* run afterwards, and the outcome of validate_charts when it was called
ChartSteps(run, now, df, specs) ==
    IF Len(specs) = 0
    THEN [run |-> WriteText(run, ChartsDir \o <<"placeholder.txt">>,
                            "charts would be rendered here"),
          status |-> "passed", input |-> None, out |-> Idle]
    ELSE LET frame == MaterialisedLine(df, specs[1])
             r1 == WriteText(WriteText(run, ChartsDir \o <<"c1.csv">>, ToCsv(frame)),
                             ChartsDir \o <<"c1.meta.json">>, "{\"id\": \"c1\"}")
             charts == "c1" :> frame
             res == ValidateCharts(df, specs, charts, DefaultTolerance)
             input == [df |-> df, specs |-> specs, charts |-> charts,
                       tolerance |-> DefaultTolerance]
         IN IF res.status = "raised"
            THEN [run |-> r1, status |-> "raised", exc |-> res.exc,
                  input |-> input, out |-> res]
            ELSE [run |-> AuditLoggerLog(
                             WriteText(r1, ChartValidationPath, "{\"issues\": []}"),
                             now, "INFO", "charts_validated"),
                  status |-> "passed", input |-> input, out |-> res]

\* lines 296-298: write_lineage, write_provenance
ArtefactSteps(run, now) ==
    AuditLoggerLog(
        WriteText(WriteText(run, LineagePath, "{\"nodes\": []}"),
                  ProvenancePath, "{\"created\": " \o FloatText(now) \o "}"),
        now, "INFO", "artefacts_prepared")

\* lines 300-302: write_manifest(out_dir) is called with no prev_hash
ManifestSteps(run, now, listing) ==
    LET prev_hash == None
        res == WriteManifestResult(run.disk, now, prev_hash, listing)
        r1 == [run EXCEPT !.disk = res.disk, !.written = Append(@, res.out)]
    IN [run |-> AuditLoggerLog(
                   AuditLoggerLog(r1, now, "INFO", "integrity_manifest_written"),
                   now, "INFO", "pipeline_complete"),
        input |-> [call |-> Calls + 1, prev_hash |-> prev_hash, disk |-> run.disk],
        out |-> [status |-> "returned", out |-> res.out]]

\* lines 218-224: ensure_outputs, pipeline_start, load_data, data_loaded
StartSteps(disk, now) ==
    AuditLoggerLog(
        AuditLoggerLog([disk |-> EnsureOutputs(disk), logged |-> <<>>,
                        written |-> <<>>],
                       now, "INFO", "pipeline_start"),
        now, "INFO", "data_loaded")

\* a variant that stamps no signature
ChartSpecsUnstamped(charts, report) == IF charts THEN <<LineSpec(None)>> ELSE <<>>

\* _chart_specs(cfg, data_signature): no spec, or the line spec carrying the
\* signature of the validation report
ChartSpecsOf(charts, report) ==
    IF charts
    THEN <<LineSpec(IF report = None THEN None ELSE report.data_signature)>>
    ELSE <<>>

\* the pipeline runs made so far
Runs == IF pin = None THEN 0 ELSE pin.run

\* what a run leaves when it raises: the exception reaches the caller
RunRaises(exc, validation, charted, run) ==
    /\ fs' = run.disk
    /\ pout' = [status |-> "raised", exc |-> exc, validation |-> validation,
                charted |-> charted,
                logged |-> run.logged, written |-> run.written]
    /\ UNCHANGED <<min, mout>>

\* cli.main(config): the schema, the chart specs and the outcome of the
\* summary cross-check come with the configuration and the data
Main(schema, charts, mismatches) ==
    /\ Runs < MaxRuns
    /\ pin' = [run |-> Runs + 1, schema |-> schema, charts |-> charts,
               mismatches |-> mismatches]
    /\ \E df \in {LoadedData(dataset)} :
       \E validated \in {ValidationBlock(StartSteps(fs, clock), clock, df,
                                         schema, vlog)} :
          /\ vlog' = validated.log
          /\ IF validated.out = Idle
             THEN UNCHANGED <<vin, vout, ncalls>>
             ELSE /\ vin' = [df |-> df, schema |-> schema, log_path |-> TRUE,
                             halt_on_error |-> TRUE]
                  /\ vout' = validated.out
                  /\ ncalls' = ncalls + 1
          /\ IF validated.status = "raised"
             THEN /\ RunRaises(validated.exc, validated.out, Idle, validated.run)
                  /\ UNCHANGED <<cin, cout>>
             ELSE \E charted \in
                        {ChartSteps(ReportSteps(validated.run, clock, df, mismatches),
                                    clock, df,
                                    ChartSpecsOf(charts, validated.report))} :
                     /\ IF charted.out = Idle
                        THEN UNCHANGED <<cin, cout>>
                        ELSE cin' = charted.input /\ cout' = charted.out
                     /\ IF charted.status = "raised"
                        THEN RunRaises(charted.exc, validated.out, charted.out,
                                       charted.run)
                        ELSE \E prepared \in {ArtefactSteps(charted.run, clock)} :
                             \E listing \in Listings(prepared.disk, ChartsDir) :
                             \E done \in {ManifestSteps(prepared, clock, listing)} :
                                /\ fs' = done.run.disk
                                /\ pout' = [status |-> "returned",
                                            validation |-> validated.out,
                                            charted |-> charted.out,
                                            logged |-> done.run.logged,
                                            written |-> done.run.written]
                                /\ min' = done.input
                                /\ mout' = done.out
    /\ UNCHANGED <<dataset, clock, din, dout, sin, sout>>

\* the data file is replaced between runs
ReplaceData(datasets) ==
    /\ pin # None
    /\ Runs < MaxRuns
    /\ dataset' \in datasets \ {dataset}
    /\ UNCHANGED <<vin, vout, vlog, ncalls, cin, cout>>
    /\ UNCHANGED integrityvars
    /\ UNCHANGED pipelinevars

\* the datasets of the pipeline scenario: one respondent
PipelineDatasets ==
    {DataFrame(<<"seg", "age">>,
               [c \in {"seg", "age"} |->
                   CASE c = "seg" -> [dtype |-> "object", cells |-> <<sg>>]
                     [] c = "age" -> [dtype |-> "int64", cells |-> <<ag>>]]) :
        sg \in {Null, Str("A")}, ag \in {Num(15), Num(30)}}

\* the schema of the configuration: none, a missing file, seg required and
\* not nullable, or age restricted to the value 15
PipelineSchemas ==
    {NoSchema, MissingSchema,
     SchemaDefinition(<<ColumnSchema("seg", "string", TRUE, FALSE, None, None, None)>>),
     SchemaDefinition(<<ColumnSchema("age", "integer", TRUE, TRUE,
                                     List({Num(15)}), None, None)>>)}

InitPipeline ==
    AuditIdle(PipelineDatasets) /\ IntegrityIdle({NoFiles}) /\ PipelineIdle

NextPipeline ==
    \/ \E schema \in PipelineSchemas, charts \in BOOLEAN, mismatches \in BOOLEAN :
          Main(schema, charts, mismatches)
    \/ Tick
    \/ ReplaceData(PipelineDatasets)

SpecPipeline == InitPipeline /\ [][NextPipeline]_vars

(***************************************************************************)
(* Claims about the pipeline.                                              *)
(***************************************************************************)
\* a step that is a run of the pipeline that wrote its manifest
PipelineWroteManifest == pin' # pin /\ pout'.status = "returned"

\* C18: the manifests written for one output root by successive pipeline
\* runs form a singly linked chain: the first has an empty
\* prev_manifest_hash, every later one the manifest_hash of the manifest
\* written immediately before it.
C18_LinkedChain ==
    [][PipelineWroteManifest =>
          NewManifest.prev_manifest_hash =
             (IF mout = Idle THEN None ELSE LastManifest(fs).manifest_hash)]_vars

(***************************************************************************)
(* write_manifest on every subset of the tracked artefacts.                *)
(***************************************************************************)
\* the lineage directory: absent, empty, or holding lineage.json
LineageTrees ==
    {NoFiles, LineageDir :> Dir, (LineageDir :> Dir) @@ (LineagePath :> File("b"))}

\* the charts directory: absent, empty, or holding a file
ArtefactCharts ==
    {NoFiles, ChartsDir :> Dir, (ChartsDir :> Dir) @@ ((ChartsDir \o <<"a">>) :> File("b"))}

\* an existing root with every subset of the five artefacts
ArtefactDisks ==
    {report @@ audit @@ provenance @@ charts @@ lineage :
        report \in OptionalFile(ReportPath),
        audit \in OptionalFile(AuditPath),
        provenance \in {NoFiles, ProvenancePath :> File("b")},
        charts \in ArtefactCharts,
        lineage \in LineageTrees}

InitArtefacts ==
    AuditIdle({None}) /\ IntegrityIdle(ArtefactDisks) /\ PipelineIdle

NextArtefacts == \E prev_hash \in PrevHashChoices : WriteManifest(prev_hash)

SpecArtefacts == InitArtefacts /\ [][NextArtefacts]_vars

\* the artefact is under the root the call was made on
Present(disk, key) == ArtefactContent(disk, key).present

IsDigest(v) == v # None /\ DOMAIN v = {"sha256"}

\* C19: write_manifest completes and returns the manifest path for every
\* subset of the five tracked artefacts being present under an existing
\* root: the artefacts map has all five keys, an entry is null exactly when
\* its artefact is absent and a digest when it is present.
C19_CompletesOnAnySubset ==
    min # None =>
       /\ mout.status = "returned"
       /\ mout.out \in ManifestFiles(fs)
       /\ DOMAIN LastManifest(fs).artefacts = ArtefactKeys
       /\ \A key \in ArtefactKeys :
             /\ LastManifest(fs).artefacts[key] = None <=> ~Present(min.disk, key)
             /\ Present(min.disk, key) => IsDigest(LastManifest(fs).artefacts[key])

\* a manifest was written with the charts directory and the report absent and
\* the audit log present
C19_Witness ==
    /\ min # None
    /\ ~Present(min.disk, "charts_dir_hash")
    /\ ~Present(min.disk, "report_md")
    /\ Present(min.disk, "audit_jsonl")
    /\ LastManifest(fs).artefacts.charts_dir_hash = None
    /\ LastManifest(fs).artefacts.audit_jsonl # None

\* validate_dataframe raised ValidationError in the last run
ValidationHalted ==
    /\ pout # Idle
    /\ pout.validation # Idle
    /\ pout.validation.status = "raised"
    /\ pout.validation.exc = "ValidationError"

Logged(level, event) ==
    \E i \in 1..Len(pout.logged) :
        pout.logged[i] = [level |-> level, event |-> event]

\* C20: when validate_dataframe raises ValidationError in cli.main, an ERROR
\* entry data_validation_failed is appended to the audit log, the failure is
\* re-raised to the caller, and no later step executes: the run writes no
\* validation summary, report.md, chart output, lineage, provenance or
\* integrity manifest and logs no pipeline_complete entry.
C20_HaltAbortsRun ==
    ValidationHalted =>
       /\ pout.status = "raised" /\ pout.exc = "ValidationError"
       /\ pout.logged[Len(pout.logged)] =
             [level |-> "ERROR", event |-> "data_validation_failed"]
       /\ pout.written = <<>>
       /\ \A i \in 1..Len(pout.logged) : pout.logged[i].event # "pipeline_complete"

\* a halted run after a run that completed: the files of the first run are
\* on the disk
C20_Witness ==
    /\ ValidationHalted
    /\ Runs = 2
    /\ IsFile(fs, ReportPath)
    /\ ManifestFiles(fs) # {}

\* the last run called validate_charts
ChartsChecked == pout # Idle /\ pout.charted # Idle

\* the place of an entry in a sequence, 0 when it is not there
IndexOf(seq, x) ==
    IF \E i \in 1..Len(seq) : seq[i] = x
    THEN CHOOSE i \in 1..Len(seq) : seq[i] = x
    ELSE 0

ManifestWrittenLast ==
    pout.status = "returned" =>
       /\ pout.written[Len(pout.written)] = mout.out
       /\ IndexOf(pout.written, ChartValidationPath) > 0
       /\ IndexOf(pout.written, ChartValidationPath) < Len(pout.written)

\* the report of validate_charts holds no staleness issue
NoStalenessIssue ==
    /\ pout.charted.status = "returned"
    /\ \A i \in 1..Len(pout.charted.report.issues) :
          pout.charted.report.issues[i].message
             # "Chart is stale relative to the dataset signature."

\* C21 as stated: in every run that reaches chart checking with a schema
\* configured, validation happened before the chart specs were built, every
\* spec carries the signature of that run's ValidationReport, the dataset
\* checked is the dataset validated, the chart report holds no staleness
\* issue and the manifest is written only after the chart report.
C21_ConfiguredSchemaThreadsSignature ==
    (ChartsChecked /\ pin.schema # NoSchema) =>
       /\ pout.validation # Idle
       /\ pout.validation.status = "returned"
       /\ \A i \in 1..Len(cin.specs) :
             cin.specs[i].data_signature = pout.validation.report.data_signature
       /\ cin.df = vin.df
       /\ NoStalenessIssue
       /\ ManifestWrittenLast

\* C21, for the runs in which validate_dataframe returned a report: the
\* validation summary is written before any chart file, every spec carries
\* the signature of that report, the dataset checked is the dataset
\* validated, the chart report holds no staleness issue and the manifest is
\* written only after the chart report.
C21_ValidatedRunThreadsSignature ==
    (ChartsChecked /\ pout.validation # Idle) =>
       /\ pout.validation.status = "returned"
       /\ IndexOf(pout.written, ValidationSummaryPath) > 0
       /\ IndexOf(pout.written, ValidationSummaryPath)
             < IndexOf(pout.written, ChartsDir \o <<"c1.csv">>)
       /\ \A i \in 1..Len(cin.specs) :
             cin.specs[i].data_signature = pout.validation.report.data_signature
       /\ cin.df = vin.df
       /\ NoStalenessIssue
       /\ ManifestWrittenLast

\* a second run validated the replaced dataset and checked its chart
C21_Witness ==
    /\ ChartsChecked
    /\ pout.validation # Idle
    /\ Runs = 2
    /\ pout.status = "returned"
    /\ Len(cin.specs) = 1
    /\ cin.specs[1].data_signature = HashDataframe(cin.df)

(***************************************************************************)
(* summary_writer.py: verify_summary_against_stats.  Evidence and expected *)
(* values are floats in ticks of 1e-7, NaN, or (evidence only) a str; a    *)
(* dict is the sequence of its items.  A message is kept as the parts its  *)
(* f-string puts together.                                                 *)
(***************************************************************************)
NaN == [t |-> "nan"]

SummaryFinding(topic, evidence) == [topic |-> topic, evidence |-> evidence]

\* key in d / d[key], for a dict kept as its items
HasKey(items, key) == \E i \in 1..Len(items) : items[i][1] = key

Lookup(items, key) == items[CHOOSE i \in 1..Len(items) : items[i][1] = key][2]

\* float(value) raises ValueError for a str that is not a number
FloatRaises(value) == value.t = "s"

\* abs(float(expected) - float(value)) > tolerance; a NaN difference is
\* greater than nothing
Differs(expected, value, tolerance) ==
    /\ expected # NaN /\ value # NaN
    /\ Abs(expected.k - value.k) > tolerance

MissingMessage(topic, key) == [topic |-> topic, key |-> key, what |-> "missing from stats"]

DiffersMessage(topic, key, expected, observed) ==
    [topic |-> topic, key |-> key, what |-> "differs", expected |-> expected,
     observed |-> observed]

\* the loop over finding.evidence.items() from the i-th item on:
\* [raised |-> TRUE] for the ValueError, else the messages appended
RECURSIVE EvidenceMismatches(_, _, _, _, _)
EvidenceMismatches(topic, evidence, expected, tolerance, i) ==
    IF i > Len(evidence) THEN [raised |-> FALSE, messages |-> <<>>]
    ELSE LET key == evidence[i][1]
             value == evidence[i][2]
             rest == EvidenceMismatches(topic, evidence, expected, tolerance, i + 1)
             With(first) ==
                 IF rest.raised THEN rest
                 ELSE [raised |-> FALSE, messages |-> first \o rest.messages]
         IN IF ~HasKey(expected, key) THEN With(<<MissingMessage(topic, key)>>)
            ELSE IF FloatRaises(value) THEN [raised |-> TRUE]
            ELSE IF Differs(Lookup(expected, key), value, tolerance)
            THEN With(<<DiffersMessage(topic, key, Lookup(expected, key), value)>>)
            ELSE With(<<>>)

\* the loop over doc.findings from the i-th finding on
RECURSIVE FindingMismatches(_, _, _, _)
FindingMismatches(findings, stats, tolerance, i) ==
    IF i > Len(findings) THEN [raised |-> FALSE, messages |-> <<>>]
    ELSE LET finding == findings[i]
             first == IF ~HasKey(stats, finding.topic)
                      THEN [raised |-> FALSE, messages |-> <<>>]
                      ELSE EvidenceMismatches(finding.topic, finding.evidence,
                                              Lookup(stats, finding.topic),
                                              tolerance, 1)
             rest == FindingMismatches(findings, stats, tolerance, i + 1)
         IN IF first.raised THEN first
            ELSE IF rest.raised THEN rest
            ELSE [raised |-> FALSE, messages |-> first.messages \o rest.messages]

\* verify_summary_against_stats(doc, stats, tolerance=tolerance)
VerifySummaryAgainstStats(findings, stats, tolerance) ==
    LET res == FindingMismatches(findings, stats, tolerance, 1)
    IN IF res.raised THEN [status |-> "raised", exc |-> "ValueError"]
       ELSE [status |-> "returned", mismatches |-> res.messages]

\* one: 1.0 in ticks
One == TicksPerUnit

EvidenceValues == {Float(One), Float(One + 10), Float(One + 11), NaN}

\* evidence dicts: up to MaxEvidence items over the keys mean and std, and
\* the evidence generate_summary gives its Data Quality finding when the
\* schema has no version
MaxEvidence == 2

EvidenceChoices(n) ==
    {<<>>, <<<<"schema_version", Str("n/a")>>>>}
    \cup {<<<<k, v>>>> : k \in {"mean", "std"}, v \in EvidenceValues}
    \cup (IF n < 2 THEN {}
          ELSE {<<<<"mean", v>>, <<"std", w>>>> : v \in EvidenceValues, w \in EvidenceValues})

Topics == {"age (numeric)", "Data Quality"}

\* documents of one finding, or of two findings of one evidence item each
SummaryDocs ==
    {<<>>}
    \cup {<<SummaryFinding(t, e)>> : t \in Topics, e \in EvidenceChoices(MaxEvidence)}
    \cup {<<SummaryFinding(t, e), SummaryFinding(u, f)>> :
            t \in Topics, u \in Topics,
            e \in EvidenceChoices(1) \ {<<>>}, f \in EvidenceChoices(1) \ {<<>>}}

\* the expected statistics of one topic
ExpectedChoices ==
    {<<<<"mean", Float(One)>>>>, <<<<"mean", Float(One)>>, <<"std", NaN>>>>,
     <<<<"schema_version", Float(One)>>>>}

\* stats: the age topic, the Data Quality topic, both or neither
StatsChoices ==
    {<<>>}
    \cup {<<<<t, e>>>> : t \in Topics, e \in ExpectedChoices}
    \cup {<<<<"age (numeric)", e>>, <<"Data Quality", e>>>> : e \in ExpectedChoices}

\* 1e-6, and no tolerance at all
SummaryTolerances == {DefaultTolerance, 0}

\* verify_summary_against_stats is called
VerifySummary(findings, stats, tolerance) ==
    /\ sin = None
    /\ sin' = [findings |-> findings, stats |-> stats, tolerance |-> tolerance]
    /\ sout' = VerifySummaryAgainstStats(findings, stats, tolerance)
    /\ UNCHANGED <<pin, pout>>
    /\ UNCHANGED auditvars
    /\ UNCHANGED integrityvars

InitSummary == AuditIdle({None}) /\ IntegrityIdle({NoFiles}) /\ PipelineIdle

NextSummary ==
    \E findings \in SummaryDocs, stats \in StatsChoices,
       tolerance \in SummaryTolerances :
          VerifySummary(findings, stats, tolerance)

SpecSummary == InitSummary /\ [][NextSummary]_vars

\* the evidence keys the claim counts: of findings whose topic is a key of
\* stats, those absent from the expected statistics of the topic or whose
\* value is away from the expected one by more than the tolerance
OffendingKeys ==
    {<<i, j>> \in (1..Len(sin.findings)) \X (1..MaxEvidence) :
        /\ j <= Len(sin.findings[i].evidence)
        /\ HasKey(sin.stats, sin.findings[i].topic)
        /\ LET expected == Lookup(sin.stats, sin.findings[i].topic)
               key == sin.findings[i].evidence[j][1]
               value == sin.findings[i].evidence[j][2]
           IN \/ ~HasKey(expected, key)
              \/ /\ value.t = "f" /\ Lookup(expected, key).t = "f"
                 /\ Abs(Lookup(expected, key).k - value.k) > sin.tolerance}

\* C22: verify_summary_against_stats returns a non-empty list iff some
\* finding whose topic is a key of stats has an evidence key that is absent
\* from the expected statistics of the topic or whose value differs from the
\* expected one by more than tolerance; it returns one message per such key,
\* and findings whose topic is not in stats contribute nothing.
C22_MismatchesIffOffending ==
    sin # None =>
       /\ sout.status = "returned"
       /\ Len(sout.mismatches) = Cardinality(OffendingKeys)
       /\ \A m \in Range(sout.mismatches) : HasKey(sin.stats, m.topic)

(***************************************************************************)
(* Unsupported declared dtypes.                                            *)
(***************************************************************************)
\* the declared dtype is none of the supported names, whatever its case
Unsupported(cs) == Lower(cs.dtype) \notin SupportedDtypes

\* the messages the checks of one declared column owe the report
OwedMessages(d, cs) ==
    IF ~HasColumn(d, cs.name)
    THEN {IF cs.required THEN "Missing required column" ELSE "Optional column missing"}
    ELSE LET values == NonNullCells(d, cs.name)
         IN {m \in {"Null values not permitted"} :
                ~cs.nullable /\ \E k \in 1..NRows(d) : d.data[cs.name][k] = Null}
            \cup {m \in {"Unsupported dtype in schema: " \o cs.dtype} : Unsupported(cs)}
            \cup {m \in {"Unexpected dtype"} :
                    ~Unsupported(cs) /\ ~DtypeSatisfied(d.dtype[cs.name], cs.dtype)}
            \cup {m \in {"Values outside allowed set"} :
                    /\ cs.allowed_values # None
                    /\ \E v \in values : v \notin cs.allowed_values.items}
            \cup {m \in {"Values below minimum"} :
                    cs.minimum # None /\ \E v \in values : v.n < cs.minimum.n}
            \cup {m \in {"Values above maximum"} :
                    cs.maximum # None /\ \E v \in values : v.n > cs.maximum.n}

\* the report holds, for the column, each owed message once and nothing else
ChecksRan(report, d, cs) ==
    LET issues == IssuesOf(report, cs.name)
    IN /\ {issues[k].message : k \in 1..Len(issues)} = OwedMessages(d, cs)
       /\ Len(issues) = Cardinality(OwedMessages(d, cs))

\* C23: for a present column whose declared dtype is not a supported name
\* (names compared case-insensitively) the report holds exactly one ERROR
\* naming the bad declaration and no "Unexpected dtype" issue for the
\* column; the null, allowed-value and range checks of the column and the
\* checks of all later columns still run.
C23_UnsupportedDtype ==
    vout.status = "returned" =>
        \A i \in 1..Len(vin.schema.columns) :
            LET cs == vin.schema.columns[i]
                issues == IssuesOf(vout.report, cs.name)
            IN (HasColumn(vin.df, cs.name) /\ Unsupported(cs)) =>
                  /\ SelectSeq(issues, LAMBDA x :
                        x.message = "Unsupported dtype in schema: " \o cs.dtype)
                     = <<[level |-> "ERROR", column |-> cs.name,
                          message |-> "Unsupported dtype in schema: " \o cs.dtype,
                          context |-> EmptyDict]>>
                  /\ \A k \in 1..Len(issues) : issues[k].message # "Unexpected dtype"
                  /\ \A j \in i..Len(vin.schema.columns) :
                        ChecksRan(vout.report, vin.df, vin.schema.columns[j])

\* a present first column of unsupported dtype that holds a null it may not
\* hold, followed by a present column of the wrong dtype
C23_Witness ==
    /\ vout.status = "returned"
    /\ Len(vin.schema.columns) = 2
    /\ \A i \in 1..2 : HasColumn(vin.df, vin.schema.columns[i].name)
    /\ Unsupported(vin.schema.columns[1])
    /\ Len(vout.report.issues) = 3
    /\ vout.report.issues[1].message = "Null values not permitted"
    /\ vout.report.issues[2].message = "Unsupported dtype in schema: text"
    /\ vout.report.issues[3].message = "Unexpected dtype"
    /\ vout.report.issues[3].column = vin.schema.columns[2].name

\* a present column of unsupported dtype with an allowed set and two bounds,
\* all three violated
C23_RangeWitness ==
    /\ vout.status = "returned"
    /\ Len(vin.schema.columns) = 1
    /\ Unsupported(vin.schema.columns[1])
    /\ HasColumn(vin.df, vin.schema.columns[1].name)
    /\ Len(vout.report.issues) >= 4

(***************************************************************************)
(* The value comparison of bar charts under the tolerance of the caller.   *)
(***************************************************************************)
\* the tolerances a caller passes: none at all, 1e-7, the default, twice the
\* default
Tolerances == {0, 1, DefaultTolerance, 2 * DefaultTolerance}

\* the frame with its first row once more, at the end
WithFirstRowTwice(frame) ==
    IF NRows(frame) = 0 THEN frame
    ELSE [frame EXCEPT !.data = [c \in DOMAIN frame.data |->
                                    Append(frame.data[c], frame.data[c][1])]]

\* one bar spec of a supported aggregation, with or without a filter, and
\* the frames its chart may hold, a frame with a duplicated category among
\* them
ToleranceInputs(df) ==
    UNION {{[specs |-> <<spec>>, charts |-> (spec.identifier :> f)] :
               f \in ChartChoices(df, spec)
                      \cup {WithFirstRowTwice(ReversedRows(BaseChart(df, spec)))}} :
              spec \in {ChartSpec("c1", sh.kind, sh.x, sh.y, sh.aggregation, f, None) :
                          sh \in BarShapes,
                          f \in {<<>>, <<Filter("seg", Str("A"))>>}}}

\* one line spec, with or without a filter, and the frames its chart may
\* hold: beside the usual ones, the points of the unfiltered data, a frame
\* with a y value missing and a frame without the y column
LineInputs(df) ==
    UNION {{[specs |-> <<spec>>, charts |-> (spec.identifier :> f)] :
               f \in ChartChoices(df, spec)
                      \cup {SortValues(df, "seg"),
                            WithoutColumn(BaseChart(df, spec), "age")}
                      \cup {WithCell(BaseChart(df, spec), "age", 1, Null) :
                               n \in {k \in {1} : NRows(BaseChart(df, spec)) > 0}}} :
              spec \in {ChartSpec("c1", sh.kind, sh.x, sh.y, sh.aggregation, f, None) :
                          sh \in LineShapes,
                          f \in {<<>>, <<Filter("seg", Str("A"))>>}}}

InitTolerance == InitValidator(ChartDatasets)

NextTolerance ==
    /\ cin = None
    /\ \E input \in ToleranceInputs(dataset) \cup LineInputs(dataset),
          tolerance \in Tolerances :
          ValidateChartsCall(input.specs, input.charts, tolerance)

SpecTolerance == InitTolerance /\ [][NextTolerance]_vars

\* the differences of the recomputed and the materialized value, category by
\* category, where both are numbers
ObservedDeltas(spec) ==
    {Abs(p[1].k - p[2].k) : p \in {q \in ValuePairs(spec) : q[1] # Null /\ q[2] # Null}}

ValueIssues(spec) ==
    SelectSeq(IssuesFor(spec), LAMBDA x : x.message = "Aggregated values differ from data.")

\* a bar spec with y and a supported aggregation whose chart has the
\* categories of the recomputation
ComparableBar(spec) ==
    /\ HasOutput(spec)
    /\ spec.kind = "bar"
    /\ CanRecompute(spec)
    /\ CategoriesAgree(spec)

\* C24: for a bar spec with a supported aggregation whose materialized x
\* categories equal the recomputed ones, the ERROR "Aggregated values differ
\* from data." is reported iff the recomputed and the materialized value of
\* some category differ by more than the tolerance the caller passed, and
\* its context holds the maximum observed delta.
C24_ValueMismatchIffBeyondTolerance ==
    (ChartsCalled /\ cout.status = "returned") =>
        \A i \in 1..Len(cin.specs) :
           LET spec == cin.specs[i]
           IN ComparableBar(spec) =>
                 IF \E d \in ObservedDeltas(spec) : d > cin.tolerance
                 THEN ValueIssues(spec) =
                         <<[identifier |-> spec.identifier, level |-> "ERROR",
                            message |-> "Aggregated values differ from data.",
                            context |-> [max_delta |->
                                            Float(SetMax(ObservedDeltas(spec)))]]>>
                 ELSE ValueIssues(spec) = <<>>

(***************************************************************************)
(* The category comparison of bar charts.                                  *)
(***************************************************************************)
\* ascending, the missing values last
AscendingNullsLast(cells) ==
    \A i, j \in 1..Len(cells) :
        i < j => /\ cells[i] = Null => cells[j] = Null
                 /\ (cells[i] # Null /\ cells[j] # Null) =>
                       StrRank(cells[i].s) <= StrRank(cells[j].s)

\* the sequence holds what the other holds, each value as many times
SameCells(a, b) ==
    /\ Len(a) = Len(b)
    /\ \A v \in Range(a) \cup Range(b) :
          Cardinality({i \in 1..Len(a) : a[i] = v})
             = Cardinality({i \in 1..Len(b) : b[i] = v})

\* the x column of the recomputed groups, sorted: the categories of the
\* filtered data, each once; and the x column of the chart, sorted
IsSortedCategories(cells, spec) ==
    /\ AscendingNullsLast(cells)
    /\ Range(cells) = Range(Filtered(spec).data[spec.x]) \ {Null}
    /\ Cardinality(Range(cells)) = Len(cells)

IsSortedChart(cells, spec) ==
    AscendingNullsLast(cells) /\ SameCells(cells, OutputOf(spec).data[spec.x])

CategoryIssues(spec) ==
    SelectSeq(IssuesFor(spec), LAMBDA x :
        x.message = "Category mismatch between chart and data.")

\* C25: for a bar spec with y and a supported aggregation, both the
\* recomputed groups and the chart are sorted by x, and the ERROR "Category
\* mismatch between chart and data." with the expected and the observed
\* categories in context is reported iff the two sorted sequences are not
\* identical (a category missing, extra or duplicated in the chart); when
\* the categories mismatch no value is compared and no value issue is made.
C25_CategoryMismatch ==
    (ChartsCalled /\ cout.status = "returned") =>
        \A i \in 1..Len(cin.specs) :
           LET spec == cin.specs[i]
               found == CategoryIssues(spec)
           IN (HasOutput(spec) /\ spec.kind = "bar" /\ CanRecompute(spec)) =>
                 IF CategoriesAgree(spec) THEN found = <<>>
                 ELSE /\ Len(found) = 1
                      /\ found[1].level = "ERROR"
                      /\ found[1].identifier = spec.identifier
                      /\ DOMAIN found[1].context = {"expected", "observed"}
                      /\ IsSortedCategories(found[1].context.expected, spec)
                      /\ IsSortedChart(found[1].context.observed, spec)
                      /\ ValueIssues(spec) = <<>>
                      /\ Len(IssuesFor(spec)) = 1

\* a chart whose rows are in descending order and that passes, and a chart
\* with a duplicated category and a value off that gets the one issue
C25_Witness ==
    /\ ChartsCalled /\ cout.status = "returned"
    /\ Len(cin.specs) = 1 /\ HasOutput(cin.specs[1])
    /\ cin.specs[1].kind = "bar" /\ CanRecompute(cin.specs[1])
    /\ Len(CategoryIssues(cin.specs[1])) = 1
    /\ LET cats == OutputOf(cin.specs[1]).data[cin.specs[1].x]
       IN /\ Len(cats) = 3
          /\ Cardinality(Range(cats)) = 2
          /\ ~AscendingNullsLast(cats)
          /\ Range(cats) = Range(Filtered(cin.specs[1]).data[cin.specs[1].x])

\* a chart whose rows are in descending order of x and that has no issue
C25_ReorderedWitness ==
    /\ ChartsCalled /\ cout.status = "returned"
    /\ Len(cin.specs) = 1 /\ HasOutput(cin.specs[1])
    /\ cin.specs[1].kind = "bar" /\ CanRecompute(cin.specs[1])
    /\ cout.report.issues = <<>>
    /\ ~AscendingNullsLast(OutputOf(cin.specs[1]).data[cin.specs[1].x])

(***************************************************************************)
(* The check of line charts.                                               *)
(***************************************************************************)
\* the x values of the chart, in its order, that the x column of the
\* filtered data does not hold
AbsentValues(spec) ==
    SelectSeq(OutputOf(spec).data[spec.x],
              LAMBDA v : \A r \in 1..NRows(Filtered(spec)) :
                            Filtered(spec).data[spec.x][r] # v)

\* a line spec with an output, whose filter columns and x exist
CheckableLine(spec) ==
    /\ HasOutput(spec)
    /\ spec.kind = "line"
    /\ \A j \in 1..Len(spec.filters) : HasColumn(cin.df, spec.filters[j].column)
    /\ HasColumn(cin.df, spec.x) /\ HasColumn(OutputOf(spec), spec.x)

\* C26: for a line spec an ERROR is reported iff some x value of the chart
\* does not occur in the x column of the dataset after the filters of the
\* spec were applied; its context lists exactly the chart x values that are
\* absent from the filtered data; the y values of the chart are never
\* compared.
C26_LineCheck ==
    ChartsCalled =>
        \A i \in 1..Len(cin.specs) :
           LET spec == cin.specs[i]
               errors == SelectSeq(IssuesFor(spec), LAMBDA x :
                            x.level = "ERROR"
                            /\ x.message # "Chart is stale relative to the dataset signature.")
           IN CheckableLine(spec) =>
                 /\ cout.status = "returned"
                 /\ IF Len(AbsentValues(spec)) > 0
                    THEN errors =
                           <<[identifier |-> spec.identifier, level |-> "ERROR",
                              message |-> "Chart includes x-values that do not exist in the dataset.",
                              context |-> [values |-> AbsentValues(spec)]]>>
                    ELSE errors = <<>>

\* a filtered line spec whose chart holds the points of the whole dataset:
\* the reported value is in the dataset, not in the filtered data
C26_Witness ==
    /\ ChartsCalled /\ cout.status = "returned"
    /\ Len(cin.specs) = 1 /\ CheckableLine(cin.specs[1])
    /\ Len(cin.specs[1].filters) = 1
    /\ Len(cout.report.issues) = 1
    /\ cout.report.issues[1].context = [values |-> <<Str("B")>>]
    /\ NRows(OutputOf(cin.specs[1])) = MaxRows

\* a line chart without its y column that has no issue
C26_NoYWitness ==
    /\ ChartsCalled /\ cout.status = "returned"
    /\ Len(cin.specs) = 1 /\ CheckableLine(cin.specs[1])
    /\ ~HasColumn(OutputOf(cin.specs[1]), cin.specs[1].y.s)
    /\ NRows(OutputOf(cin.specs[1])) > 0
    /\ cout.report.issues = <<>>

(***************************************************************************)
(* Charts of a kind the checker has no validator for.                      *)
(***************************************************************************)
Unmodeled(spec) == spec.kind \notin {"bar", "line"}

\* the issues of the spec that the staleness check did not make
KindIssues(spec) ==
    SelectSeq(IssuesFor(spec), LAMBDA x :
        x.message # "Chart is stale relative to the dataset signature.")

\* C27: a spec whose kind is neither bar nor line and that has a
\* materialized output gets the WARN "No validator registered for chart
\* kind" and no ERROR from the check of the chart, so a report whose specs
\* are all of such kinds, with captured signatures that match or are unset,
\* has no error.
C27_UnmodeledKindWarns ==
    (ChartsCalled /\ cout.status = "returned") =>
       /\ \A i \in 1..Len(cin.specs) :
             (HasOutput(cin.specs[i]) /\ Unmodeled(cin.specs[i])) =>
                KindIssues(cin.specs[i]) =
                   <<[identifier |-> cin.specs[i].identifier, level |-> "WARN",
                      message |-> "No validator registered for chart kind: "
                                     \o cin.specs[i].kind,
                      context |-> EmptyDict]>>
       /\ (\A i \in 1..Len(cin.specs) :
              /\ HasOutput(cin.specs[i]) /\ Unmodeled(cin.specs[i])
              /\ cin.specs[i].data_signature \in {None, HashDataframe(cin.df)})
          => ~ChartHasErrors(cout.report)

\* a filtered pie chart that carries the signature of the dataset: the
\* report holds the warning alone
C27_Witness ==
    /\ ChartsCalled /\ cout.status = "returned"
    /\ Len(cin.specs) = 1
    /\ HasOutput(cin.specs[1]) /\ Unmodeled(cin.specs[1])
    /\ cin.specs[1].data_signature = HashDataframe(cin.df)
    /\ Len(cin.specs[1].filters) > 0
    /\ NRows(cin.df) = MaxRows
    /\ Len(cout.report.issues) = 1
    /\ cout.report.issues[1].level = "WARN"
    /\ ~ChartHasErrors(cout.report)

(***************************************************************************)
(* The manifest of a run against the disk the run leaves.                  *)
(***************************************************************************)
\* the run of the pipeline came to its end
RunCompleted == pout # Idle /\ pout.status = "returned"

\* the hashes write_manifest would record of the disk as it is now
HashesNow(disk) ==
    {Artefacts(disk, listing) : listing \in Listings(disk, ChartsDir)}

\* C28: within one run of the pipeline no artefact the manifest tracks is
\* modified after write_manifest recorded its hash: at the end of the run
\* every artefact hash of the manifest of the run that is not null,
\* audit_jsonl included, is the hash of the bytes of the artefact on disk.
C28_ManifestMatchesDisk ==
    RunCompleted =>
        \A key \in ArtefactKeys :
            LastManifest(fs).artefacts[key] # None =>
                \E now \in HashesNow(fs) : LastManifest(fs).artefacts[key] = now[key]

\* what does hold: every tracked artefact but the audit log has, at the end
\* of the run, the hash the manifest recorded
ManifestMatchesDiskButAudit ==
    RunCompleted =>
        \A key \in ArtefactKeys \ {"audit_jsonl"} :
            /\ LastManifest(fs).artefacts[key] # None
            /\ \E now \in HashesNow(fs) : LastManifest(fs).artefacts[key] = now[key]

(***************************************************************************)
(* sha256_dir as a fingerprint of the charts directory.                    *)
(***************************************************************************)
\* the charts directory, as its set of (relative path, bytes), is not what
\* it was at the write before
ChartsChanged(before, after) ==
    ArtefactContent(before, "charts_dir_hash") # ArtefactContent(after, "charts_dir_hash")

\* C29: sha256_dir distinguishes directory contents: two trees whose sets
\* of (relative file path, file bytes) differ fold different byte streams
\* and so have different hashes; a change to the charts directory between
\* two writes always changes charts_dir_hash in the manifest.
C29_DirHashDistinguishes ==
    [][(ManifestWritten /\ min # None /\ ChartsChanged(min.disk, min'.disk))
          => NewManifest.artefacts["charts_dir_hash"]
                # LastManifest(fs).artefacts["charts_dir_hash"]]_vars

(***************************************************************************)
(* The shape of the report of validate_charts.                             *)
(***************************************************************************)
IsStale(issue) == issue.message = "Chart is stale relative to the dataset signature."

\* the position in the input of the spec an issue names (0 when none does)
SpecPosition(issue) ==
    IF \E i \in 1..Len(cin.specs) : cin.specs[i].identifier = issue.identifier
    THEN CHOOSE i \in 1..Len(cin.specs) : cin.specs[i].identifier = issue.identifier
    ELSE 0

\* C30: in every report validate_charts returns the issues appear in the
\* order of the specs; each spec contributes at most two issues, at most one
\* from the missing-output check or the check of its kind, followed by at
\* most one staleness issue; the identifier of every issue is the identifier
\* of a spec of the input; and the dataset, the specs and the charts are
\* left as they were.
C30_ReportShape ==
    (ChartsCalled /\ cout.status = "returned") =>
       LET issues == cout.report.issues
       IN /\ \A j \in 1..Len(issues) : SpecPosition(issues[j]) > 0
          /\ \A j, k \in 1..Len(issues) :
                j < k => SpecPosition(issues[j]) <= SpecPosition(issues[k])
          /\ \A i \in 1..Len(cin.specs) :
                LET own == IssuesFor(cin.specs[i])
                IN /\ Len(own) <= 2
                   /\ Len(SelectSeq(own, IsStale)) <= 1
                   /\ Len(SelectSeq(own, LAMBDA x : ~IsStale(x))) <= 1
                   /\ Len(own) = 2 => ~IsStale(own[1]) /\ IsStale(own[2])
                   /\ ~HasOutput(cin.specs[i]) => Len(SelectSeq(own, IsStale)) = 0
          /\ dataset = cin.df

\* two specs with two issues each: the warning of the kind, then the
\* staleness issue, first of the first spec, then of the second
C30_Witness ==
    /\ ChartsCalled /\ cout.status = "returned"
    /\ Len(cin.specs) = 2
    /\ Len(cout.report.issues) = 4
    /\ \A j \in 1..4 :
          /\ cout.report.issues[j].identifier = cin.specs[(j + 1) \div 2].identifier
          /\ IsStale(cout.report.issues[j]) <=> j \in {2, 4}
    /\ NRows(cin.df) = MaxRows

====
